---------------------------- MODULE Spec2Model ----------------------------
(***************************************************************************)
(* Tesla-ESP-CAN: the CAN bit-field extractor, the format-A (compact       *)
(* 6-state relay) transmitter and receiver, the standalone CAN listener    *)
(* and the format-B (ambient-strip) transmitter, as state machines.        *)
(*                                                                         *)
(* Machine integers.  TLC's integers are 32-bit signed, so                 *)
(*   - a uint32_t is a record [hi, lo] of two 16-bit halves (U32...),      *)
(*   - a uint64_t is a function 1..64 -> {0,1}, index 1 being the most     *)
(*     significant bit (U64...),                                           *)
(*   - a uint8_t / uint16_t is a natural number reduced % 2^8 / % 2^16.    *)
(***************************************************************************)
EXTENDS Integers, Sequences, FiniteSets, TLC

VARIABLES
    now,      \* millis(): the 32-bit millisecond clock
    ticks,    \* number of clock advances so far (bounds the run)
    ran,      \* the devices whose loop() has completed an iteration since the clock last advanced
    bus,      \* the MCP2515: f, the frame in its receive buffer (NoFrame if none); n, the
              \* frames received so far; read, the payload of the last frame that a
              \* device read and recognized (<<>> if none)
    air,      \* the radio: ESP-NOW payloads handed to esp_now_send, not yet delivered
    sent,     \* observation of the radio: number, time and bytes of the payloads sent so
              \* far, and what the last payload the receive callback ran for was
    tx,       \* format-A transmitter (src/unnamed/part_002)
    rx,       \* format-A receiver    (src/unnamed/part_003)
    lst,      \* standalone CAN listener (src/unnamed/part_001)
    txb,      \* format-B transmitter (ESP_TX_WEB.ino)
    probe,    \* one application of a pure function: its arguments and its result
    rxb,      \* format-B receiver (ESP_RX_WEB.ino)
    obs,      \* observation of the format-B receiver: n, the packets on_data_recv
              \* accepted so far; at and bytes, the time and the payload of the last
              \* one; status, the last /status snapshot; asked, the web requests
              \* served so far; frames, the frames shown so far
    ctl       \* 5-strip LED controller (src/unnamed/part_000): its startup settings,
              \* startup and fade state, and the animation selected on each strip

vars == <<now, ticks, ran, bus, air, sent, tx, rx, lst, txb, probe, rxb, obs, ctl>>

---------------------------------------------------------------------------
(* Bytes and bits *)

Pow2(n) == 2 ^ n

\* bit k (0 = least significant) of the natural number v
BitOf(v, k) == (v \div Pow2(k)) % 2

RECURSIVE XorN(_, _, _)
\* bitwise exclusive or of the low n bits of a and b (C's ^ on uint8_t for n = 8)
XorN(a, b, n) ==
    IF n = 0 THEN 0
    ELSE (((a % 2) + (b % 2)) % 2) + 2 * XorN(a \div 2, b \div 2, n - 1)

Xor8(a, b) == XorN(a, b, 8)

\* C's & on two naturals, over the low n bits
RECURSIVE AndN(_, _, _)
AndN(a, b, n) ==
    IF n = 0 THEN 0
    ELSE ((a % 2) * (b % 2)) + 2 * AndN(a \div 2, b \div 2, n - 1)

---------------------------------------------------------------------------
(* uint32_t as two 16-bit halves *)

Half == 2 ^ 16

U32(n) == [hi |-> 0, lo |-> n]

U32Of(h, l) == [hi |-> h, lo |-> l]

\* a + d (mod 2^32), d < 2^16
U32Add(a, d) ==
    [hi |-> (a.hi + ((a.lo + d) \div Half)) % Half, lo |-> (a.lo + d) % Half]

\* a - b (mod 2^32): C's unsigned subtraction
U32Sub(a, b) ==
    LET borrow == IF a.lo < b.lo THEN 1 ELSE 0
    IN  [hi |-> (a.hi - b.hi - borrow + Half) % Half,
         lo |-> (a.lo - b.lo + Half) % Half]

\* a > n and a >= n for a 32-bit a and a constant n < 2^16
U32GtC(a, n) == a.hi > 0 \/ a.lo > n
U32GeC(a, n) == a.hi > 0 \/ a.lo >= n

\* a >= b, both 32-bit
U32Ge(a, b) == a.hi > b.hi \/ (a.hi = b.hi /\ a.lo >= b.lo)

\* the four bytes of a uint32_t in memory (little-endian, as on the ESP32)
U32Bytes(a) == <<a.lo % 256, a.lo \div 256, a.hi % 256, a.hi \div 256>>

\* the two bytes of a uint16_t in memory (little-endian)
U16Bytes(v) == <<v % 256, v \div 256>>

---------------------------------------------------------------------------
(* uint64_t as 64 bits, most significant first *)

U64Zero == [i \in 1 .. 64 |-> 0]

U64Max == [i \in 1 .. 64 |-> 1]

\* v << 8
U64Shl8(v) == [i \in 1 .. 64 |-> IF i <= 56 THEN v[i + 8] ELSE 0]

\* v | b for a byte b
U64OrByte(v, b) ==
    [i \in 1 .. 64 |-> IF i > 56 /\ BitOf(b, 64 - i) = 1 THEN 1 ELSE v[i]]

\* v >> s, 0 <= s < 64
U64Shr(v, s) == [i \in 1 .. 64 |-> IF i - s >= 1 THEN v[i - s] ELSE 0]

\* v & m
U64And(v, m) == [i \in 1 .. 64 |-> v[i] * m[i]]

\* (1ULL << len) - 1ULL, 0 <= len < 64
U64LowOnes(len) == [i \in 1 .. 64 |-> IF i > 64 - len THEN 1 ELSE 0]

\* (uint8_t) v
U64ToU8(v) ==
    v[64] + 2 * v[63] + 4 * v[62] + 8 * v[61]
      + 16 * v[60] + 32 * v[59] + 64 * v[58] + 128 * v[57]

RECURSIVE Reassemble(_, _)
\* be after the first n rounds of: for (i = 0; i < 8; i++) be = (be << 8) | data[i]
Reassemble(data, n) ==
    IF n = 0 THEN U64Zero
    ELSE U64OrByte(U64Shl8(Reassemble(data, n - 1)), data[n])

\* A mask that forgets the len == 64 case: (1ULL << 64) - 1 computed as 1 - 1.
extract_mask_no64(len) ==
    IF len = 64 THEN U64Zero ELSE U64LowOnes(len)

\* uint64_t mask = (len == 64) ? UINT64_MAX : ((1ULL << len) - 1ULL)
extract_mask(len) ==
    IF len = 64 THEN U64Max ELSE U64LowOnes(len)

\* extract_moto_be with the shift taken from the start bit alone
extract_moto_be_shift(data, startBit, len) ==
    LET be    == Reassemble(data, 8)
        shift == (64 - startBit) % 256
    IN  U64And(U64Shr(be, shift % 64), extract_mask(len))

\* extract_moto_be(data, startBit, len); the caller guarantees
\* startBit + len <= 64, so that the uint8_t shift is in 0 .. 63.
extract_moto_be(data, startBit, len) ==
    LET be    == Reassemble(data, 8)
        shift == (64 - startBit - len) % 256
    IN  U64And(U64Shr(be, shift), extract_mask(len))

---------------------------------------------------------------------------
(* The bit-field of section 4.1, read off the payload directly *)

\* bit k of the payload, k = 0 being the most significant bit of byte 0
PayloadBit(data, k) == BitOf(data[(k \div 8) + 1], 7 - (k % 8))

\* bits [startBit, startBit+len) of the payload, right-aligned in 64 bits
FieldBits(data, startBit, len) ==
    [i \in 1 .. 64 |->
        IF i > 64 - len THEN PayloadBit(data, startBit + (i - (64 - len)) - 1)
        ELSE 0]

\* the value of a field of at most 8 bits
RECURSIVE FieldValue(_, _, _)
FieldValue(data, startBit, len) ==
    IF len = 0 THEN 0
    ELSE 2 * FieldValue(data, startBit, len - 1)
           + PayloadBit(data, startBit + len - 1)

---------------------------------------------------------------------------
(* Program constants *)

CAN_ID_VCFRONT_LIGHTING == 1013   \* 0x3F5

MAGIC == 165                      \* 0xA5

VERSION == 1

PAYLOAD_SIZE == 12                \* sizeof(Payload), packed: 1+1+1+1+1+2+4+1

HEARTBEAT_MS == 150

FRAME_TIMEOUT_MS == 700

LINK_TIMEOUT_MS == 1000

LINK_BLINK_ON_MS == 200

LINK_BLINK_OFF_MS == 200

LINK_BLINK_COUNT == 3

SHOW_REFRESH_MS == 120

LST_FRAME_TIMEOUT_MS == 700

LST_REFRESH_MS == 120

TXB_HEARTBEAT_MS == 120

TXB_ID_MASK == 2048               \* id & 0x7FF is id % 2048

PREV_NONE == 255                  \* 0xFF

---------------------------------------------------------------------------
(* Bounds of the model *)

\* the clock advances in steps of TickMs milliseconds ...
TickMs == 100

\* ... at most MaxTicks times
MaxTicks == 14

\* the bus delivers at most MaxFrames frames in a run
MaxFrames == 2

---------------------------------------------------------------------------
(* The CAN bus *)

NoFrame == [id |-> U32(0), len |-> 0, data |-> <<>>]

\* byte 6 holds bits 48..55: the left status in bits 50..51, the right status
\* in bits 52..53; every other bit of the payload is 0 (fill = 0) or 1 (fill = 1)
LightingData(l, r, fill) ==
    [i \in 1 .. 8 |->
        IF i = 7 THEN (l * 16) + (r * 4) + (IF fill = 1 THEN 195 ELSE 0)
        ELSE (IF fill = 1 THEN 255 ELSE 0)]

Frame(id, len, data) == [id |-> id, len |-> len, data |-> data]

\* what readMsgBuf reports as the id: the 11-bit id of a standard frame, and
\* for an extended frame the 29-bit id with bit 31 set.  Every setup() opens
\* the controller with CAN0.begin(MCP_ANY, ...), the mode in which it receives
\* every frame on the bus, standard or extended: the test in loop() is the
\* only filter.
StdId(n) == U32(n)
ExtId(h, l) == U32Of(32768 + h, l)

\* checkReceive() / readMsgBuf(): the buffer afterwards; recognized tells
\* whether the reading device goes on to decode the frame
BusRead(recognized) ==
    IF bus.f = NoFrame THEN bus
    ELSE [bus EXCEPT !.f = NoFrame,
                     !.read = IF recognized THEN bus.f.data ELSE bus.read]

---------------------------------------------------------------------------
(* Wire format A: struct Payload, packed *)

\* the memory image of a Payload: what reinterpret_cast<const uint8_t*>(&p) reads
PayloadImage(p) ==
    <<p.magic, p.version, p.leftStatus, p.rightStatus, p.flags>>
        \o U16Bytes(p.seq) \o U32Bytes(p.ms) \o <<p.crc>>

\* memcpy(&p, data, sizeof(Payload)) for a data of sizeof(Payload) bytes
PayloadFrom(b) ==
    [magic |-> b[1], version |-> b[2], leftStatus |-> b[3],
     rightStatus |-> b[4], flags |-> b[5],
     seq |-> b[6] + (256 * b[7]),
     ms |-> U32Of(b[10] + (256 * b[11]), b[8] + (256 * b[9])),
     crc |-> b[12]]

RECURSIVE XorBytes(_, _)
\* x after: for (i = 0; i < n; i++) x ^= b[i]
XorBytes(b, n) ==
    IF n = 0 THEN 0 ELSE Xor8(XorBytes(b, n - 1), b[n])

\* make_crc whose loop stops one byte early
make_crc_short(p) == XorBytes(PayloadImage(p), PAYLOAD_SIZE - 2)

\* make_crc: xor of the first sizeof(Payload)-1 bytes
make_crc(p) == XorBytes(PayloadImage(p), PAYLOAD_SIZE - 1)

\* calc_crc: the receiver's copy of the same loop
calc_crc(p) == XorBytes(PayloadImage(p), PAYLOAD_SIZE - 1)

---------------------------------------------------------------------------
(* The radio *)

\* esp_now_send(peer, bytes, size): out is <<>> or one payload <<bytes>>
Transmit(out) ==
    IF out = <<>> THEN UNCHANGED <<air, sent>>
    ELSE /\ air' = Append(air, [bytes |-> out[1], tag |-> "intact"])
         /\ sent' = [sent EXCEPT !.n = sent.n + 1, !.at = now, !.bytes = out[1]]

NoneSent == [n |-> 0, at |-> U32(0), bytes |-> <<>>, heard |-> "none"]

---------------------------------------------------------------------------
(* Format-A transmitter: src/unnamed/part_002 *)

TxOff ==
    [pc |-> "off", leftStatus |-> 0, rightStatus |-> 0, haveSeenData |-> FALSE,
     lastFrameMs |-> U32(0), lastHeartbeatMs |-> U32(0), seq |-> 0,
     prevL |-> PREV_NONE, prevR |-> PREV_NONE, prevFlags |-> PREV_NONE]

\* the globals and sendPacket's statics as initialized, before setup()
TxBoot == [TxOff EXCEPT !.pc = "setup"]

TxFlags(t) == IF t.haveSeenData THEN 1 ELSE 0

TxChanged(t) ==
    \/ t.leftStatus # t.prevL
    \/ t.rightStatus # t.prevR
    \/ TxFlags(t) # t.prevFlags

\* the Payload sendPacket builds at time ms
TxPayload(t, ms) ==
    LET p == [magic |-> MAGIC, version |-> VERSION,
              leftStatus |-> t.leftStatus, rightStatus |-> t.rightStatus,
              flags |-> TxFlags(t), seq |-> (t.seq + 1) % Half,
              ms |-> ms, crc |-> 0]
    IN  [p EXCEPT !.crc = make_crc(p)]

\* sendPacket(force) at time ms: the transmitter afterwards, and what it sent
sendPacket(t, force, ms) ==
    IF ~TxChanged(t) /\ ~force THEN [t |-> t, out |-> <<>>]
    ELSE [t   |-> [t EXCEPT !.seq = (t.seq + 1) % Half, !.prevL = t.leftStatus,
                            !.prevR = t.rightStatus, !.prevFlags = TxFlags(t)],
          out |-> <<PayloadImage(TxPayload(t, ms))>>]

\* setup(): any of esp_now_init, esp_now_add_peer, CAN0.begin may fail, and
\* then setup never returns (while (1) delay(1000))
TxSetup ==
    /\ tx.pc = "setup"
    /\ \E ok \in BOOLEAN :
         tx' = IF ok THEN [tx EXCEPT !.pc = "can", !.lastFrameMs = now]
               ELSE [tx EXCEPT !.pc = "halt"]
    /\ UNCHANGED <<now, ticks, ran, bus, air, sent, rx, lst, txb, probe, rxb, obs, ctl>>

TxRecognized(f) ==
    f.id = U32(CAN_ID_VCFRONT_LIGHTING) /\ f.len = 8

\* loop(), "Receive CAN"
TxPoll ==
    /\ tx.pc = "can"
    /\ air = <<>>
    /\ IF bus.f # NoFrame /\ TxRecognized(bus.f)
       THEN LET t1 == [tx EXCEPT
                         !.leftStatus = U64ToU8(extract_moto_be(bus.f.data, 50, 2)),
                         !.rightStatus = U64ToU8(extract_moto_be(bus.f.data, 52, 2)),
                         !.haveSeenData = TRUE,
                         !.lastFrameMs = now]
                r  == sendPacket(t1, TRUE, now)
            IN  /\ tx' = [r.t EXCEPT !.pc = "hb"]
                /\ Transmit(r.out)
       ELSE /\ tx' = [tx EXCEPT !.pc = "hb"]
            /\ UNCHANGED <<air, sent>>
    /\ bus' = BusRead(TxRecognized(bus.f))
    /\ UNCHANGED <<now, ticks, ran, rx, lst, txb, probe, rxb, obs, ctl>>

\* loop(), "Heartbeat + timeout"
TxHeartbeat ==
    /\ tx.pc = "hb"
    /\ air = <<>>
    /\ IF U32GtC(U32Sub(now, tx.lastHeartbeatMs), HEARTBEAT_MS)
       THEN LET timeout == /\ tx.haveSeenData
                           /\ U32GtC(U32Sub(now, tx.lastFrameMs), FRAME_TIMEOUT_MS)
                r == IF timeout
                     THEN sendPacket([tx EXCEPT !.haveSeenData = FALSE,
                                                !.leftStatus = 0,
                                                !.rightStatus = 0], TRUE, now)
                     ELSE sendPacket(tx, FALSE, now)
            IN  /\ tx' = [r.t EXCEPT !.pc = "can", !.lastHeartbeatMs = now]
                /\ Transmit(r.out)
       ELSE /\ tx' = [tx EXCEPT !.pc = "can"]
            /\ UNCHANGED <<air, sent>>
    /\ ran' = ran \cup {"tx"}
    /\ UNCHANGED <<now, ticks, bus, rx, lst, txb, probe, rxb, obs, ctl>>

---------------------------------------------------------------------------
(* Format-A receiver: src/unnamed/part_003 *)

RxOff ==
    [pc |-> "off", registered |-> FALSE, mode_ |-> "DBG_BOOTING",
     leftStatus |-> 0, rightStatus |-> 0,
     haveSeenData |-> FALSE, linkSeen |-> FALSE,
     lastPktMs |-> U32(0), lastShowMs |-> U32(0),
     linkBlinkActive |-> FALSE, linkBlinkStep |-> 0, linkBlinkNext |-> U32(0)]

\* the globals as initialized, before setup()
RxBoot == [RxOff EXCEPT !.pc = "boot"]

\* setup() up to enterMode(DBG_ESPNOW_INIT): the boot wipe, the radio channel
RxSetupBoot ==
    /\ rx.pc = "boot"
    /\ rx' = [rx EXCEPT !.pc = "init", !.mode_ = "DBG_ESPNOW_INIT"]
    /\ UNCHANGED <<now, ticks, ran, bus, air, sent, tx, lst, txb, probe, rxb, obs, ctl>>

\* setup() that registers the callback before it looks at esp_now_init()
RxSetupInit_registered ==
    /\ rx.pc = "init"
    /\ \E ok \in BOOLEAN :
         rx' = IF ok
               THEN [rx EXCEPT !.pc = "loop", !.registered = TRUE,
                               !.mode_ = "DBG_WAITING_FOR_LINK"]
               ELSE [rx EXCEPT !.pc = "loop", !.registered = TRUE,
                               !.mode_ = "DBG_ERROR"]
    /\ UNCHANGED <<now, ticks, ran, bus, air, sent, tx, lst, txb, probe, rxb, obs, ctl>>

\* setup() from esp_now_init() on: Error, or the callback registered and
\* Waiting-For-Link
RxSetupInit ==
    /\ rx.pc = "init"
    /\ \E ok \in BOOLEAN :
         rx' = IF ok
               THEN [rx EXCEPT !.pc = "loop", !.registered = TRUE,
                               !.mode_ = "DBG_WAITING_FOR_LINK"]
               ELSE [rx EXCEPT !.pc = "loop", !.mode_ = "DBG_ERROR"]
    /\ UNCHANGED <<now, ticks, ran, bus, air, sent, tx, lst, txb, probe, rxb, obs, ctl>>

\* the chain without its second branch: Running is never left on a payload
RxModeAfter_stay(mode, seen) ==
    IF seen /\ mode # "DBG_RUNNING" THEN "DBG_RUNNING"
    ELSE IF ~seen /\ mode = "DBG_WAITING_FOR_LINK" THEN "DBG_WAITING_FOR_DATA"
    ELSE mode

\* the mode after the if / else-if chain at the end of onRecv
RxModeAfter(mode, seen) ==
    IF seen /\ mode # "DBG_RUNNING" THEN "DBG_RUNNING"
    ELSE IF ~seen /\ mode = "DBG_RUNNING" THEN "DBG_WAITING_FOR_DATA"
    ELSE IF ~seen /\ mode = "DBG_WAITING_FOR_LINK" THEN "DBG_WAITING_FOR_DATA"
    ELSE mode

\* onRecv that starts the link blink at every accepted payload
RxApply_restart(r, p, t) ==
    LET r1 == [r EXCEPT !.linkBlinkActive = TRUE, !.linkBlinkStep = 0,
                        !.linkBlinkNext = t]
        seen == AndN(p.flags, 1, 8) # 0
    IN  [r1 EXCEPT !.linkSeen = TRUE, !.lastPktMs = t,
                   !.leftStatus = p.leftStatus, !.rightStatus = p.rightStatus,
                   !.haveSeenData = seen,
                   !.mode_ = RxModeAfter(r.mode_, seen)]

\* what onRecv does once the payload has passed validation
RxApply(r, p, t) ==
    LET r1 == IF ~r.linkSeen
              THEN [r EXCEPT !.linkBlinkActive = TRUE, !.linkBlinkStep = 0,
                             !.linkBlinkNext = t]
              ELSE r
        seen == AndN(p.flags, 1, 8) # 0
    IN  [r1 EXCEPT !.linkSeen = TRUE, !.lastPktMs = t,
                   !.leftStatus = p.leftStatus, !.rightStatus = p.rightStatus,
                   !.haveSeenData = seen,
                   !.mode_ = RxModeAfter(r.mode_, seen)]

\* onRecv without the checksum test
onRecv_nocrc(r, data, t) ==
    IF Len(data) # PAYLOAD_SIZE THEN r
    ELSE LET p == PayloadFrom(data)
         IN  IF p.magic # MAGIC \/ p.version # VERSION THEN r
             ELSE RxApply(r, p, t)

\* onRecv that stamps the packet time before validating
onRecv_stamp(r, data, t) ==
    IF Len(data) # PAYLOAD_SIZE THEN [r EXCEPT !.lastPktMs = t]
    ELSE LET p == PayloadFrom(data)
         IN  IF p.magic # MAGIC \/ p.version # VERSION
             THEN [r EXCEPT !.lastPktMs = t]
             ELSE IF calc_crc(p) # p.crc THEN [r EXCEPT !.lastPktMs = t]
             ELSE RxApply(r, p, t)

\* onRecv(info, data, len) at time t: the receiver afterwards
onRecv(r, data, t) ==
    IF Len(data) # PAYLOAD_SIZE THEN r
    ELSE LET p == PayloadFrom(data)
         IN  IF p.magic # MAGIC \/ p.version # VERSION THEN r
             ELSE IF calc_crc(p) # p.crc THEN r
             ELSE RxApply(r, p, t)

\* the ESP-NOW receive callback runs for the payload at the head of the radio
RxOnRecv ==
    /\ air # <<>>
    /\ rx.registered
    /\ rx' = onRecv(rx, Head(air).bytes, now)
    /\ air' = Tail(air)
    /\ sent' = [sent EXCEPT !.heard = Head(air).tag]
    /\ UNCHANGED <<now, ticks, ran, bus, tx, lst, txb, probe, rxb, obs, ctl>>

\* no receive callback is registered: the payload is heard by nobody
RadioUnheard ==
    /\ air # <<>>
    /\ ~rx.registered
    /\ air' = Tail(air)
    /\ UNCHANGED <<now, ticks, ran, bus, sent, tx, rx, lst, txb, probe, rxb, obs, ctl>>

\* the link blink that goes on after its sixth step
RxBlink_forever(r, t) ==
    IF U32Ge(t, r.linkBlinkNext)
    THEN LET step == (r.linkBlinkStep + 1) % 256
         IN  [r EXCEPT !.linkBlinkNext =
                           U32Add(t, IF r.linkBlinkStep % 2 = 0
                                     THEN LINK_BLINK_ON_MS ELSE LINK_BLINK_OFF_MS),
                       !.linkBlinkStep = step]
    ELSE r

\* loop(), the link-blink branch: one step of the 3x green blink
RxBlink(r, t) ==
    IF U32Ge(t, r.linkBlinkNext)
    THEN LET step == (r.linkBlinkStep + 1) % 256
         IN  [r EXCEPT !.linkBlinkNext =
                           U32Add(t, IF r.linkBlinkStep % 2 = 0
                                     THEN LINK_BLINK_ON_MS ELSE LINK_BLINK_OFF_MS),
                       !.linkBlinkStep = step,
                       !.linkBlinkActive = ~(step >= LINK_BLINK_COUNT * 2)]
    ELSE r

\* link supervision with the transmitter's frame timeout as the dead window
RxSupervise_frame(r, t) ==
    IF r.linkSeen /\ U32GtC(U32Sub(t, r.lastPktMs), FRAME_TIMEOUT_MS)
    THEN [r EXCEPT !.linkSeen = FALSE, !.haveSeenData = FALSE,
                   !.leftStatus = 0, !.rightStatus = 0,
                   !.mode_ = "DBG_WAITING_FOR_LINK"]
    ELSE r

\* link supervision that leaves the statuses and the data-seen flag alone
RxSupervise_keep(r, t) ==
    IF r.linkSeen /\ U32GtC(U32Sub(t, r.lastPktMs), LINK_TIMEOUT_MS)
    THEN [r EXCEPT !.linkSeen = FALSE, !.mode_ = "DBG_WAITING_FOR_LINK"]
    ELSE r

\* loop(), "Link supervision"
RxSupervise(r, t) ==
    IF r.linkSeen /\ U32GtC(U32Sub(t, r.lastPktMs), LINK_TIMEOUT_MS)
    THEN [r EXCEPT !.linkSeen = FALSE, !.haveSeenData = FALSE,
                   !.leftStatus = 0, !.rightStatus = 0,
                   !.mode_ = "DBG_WAITING_FOR_LINK"]
    ELSE r

\* loop(), "Periodic refresh in RUNNING"
RxRefresh(r, t) ==
    IF r.mode_ = "DBG_RUNNING" /\ U32GtC(U32Sub(t, r.lastShowMs), SHOW_REFRESH_MS)
    THEN [r EXCEPT !.lastShowMs = t]
    ELSE r

\* loop(), what the iteration draws: a step of the link blink, or else the
\* debug animation of the mode ("Normal debug UI")
RxDebugUI(r) ==
    IF r.linkBlinkActive THEN "linkBlink"
    ELSE IF r.mode_ = "DBG_ESPNOW_INIT" THEN "debugShowInit"
    ELSE IF r.mode_ = "DBG_WAITING_FOR_LINK"
            \/ (r.mode_ = "DBG_WAITING_FOR_DATA" /\ ~r.haveSeenData)
         THEN "debugShowWaiting"
    ELSE IF r.mode_ = "DBG_ERROR" THEN "debugShowError"
    ELSE "none"

\* one iteration of loop()
RxLoop ==
    /\ rx.pc = "loop"
    /\ rx' = IF rx.linkBlinkActive THEN RxBlink(rx, now)
             ELSE RxRefresh(RxSupervise(rx, now), now)
    /\ ran' = ran \cup {"rx"}
    /\ UNCHANGED <<now, ticks, bus, air, sent, tx, lst, txb, probe, rxb, obs, ctl>>

\* loop(), "Link supervision", as the two tasks see it.  onRecv runs in the
\* Wi-Fi task and the globals are plain (not volatile, no lock), so the callback
\* can run between loop()'s test of linkSeen and lastPktMs and the assignments
\* of the branch.  RxLoopEnter: the test has come out true.
RxLoopEnter ==
    /\ rx.pc = "loop"
    /\ ~rx.linkBlinkActive
    /\ rx.linkSeen /\ U32GtC(U32Sub(now, rx.lastPktMs), LINK_TIMEOUT_MS)
    /\ rx' = [rx EXCEPT !.pc = "timeout"]
    /\ ran' = ran \ {"rx"}
    /\ UNCHANGED <<now, ticks, bus, air, sent, tx, lst, txb, probe, rxb, obs, ctl>>

\* ... the assignments of the branch, and the rest of the iteration
RxLoopTimeout ==
    /\ rx.pc = "timeout"
    /\ rx' = RxRefresh([rx EXCEPT !.pc = "loop",
                                  !.linkSeen = FALSE, !.haveSeenData = FALSE,
                                  !.leftStatus = 0, !.rightStatus = 0,
                                  !.mode_ = "DBG_WAITING_FOR_LINK"], now)
    /\ ran' = ran \cup {"rx"}
    /\ UNCHANGED <<now, ticks, bus, air, sent, tx, lst, txb, probe, rxb, obs, ctl>>

---------------------------------------------------------------------------
(* Standalone CAN listener: src/unnamed/part_001 *)

LstOff ==
    [pc |-> "off", dbgMode |-> "DBG_BOOTING", dbgAnimMs |-> U32(0),
     lastFrameMs |-> U32(0), haveSeenData |-> FALSE,
     leftStatus |-> 0, rightStatus |-> 0, lastRefresh |-> U32(0)]

\* the globals as initialized, before setup()
LstBoot == [LstOff EXCEPT !.pc = "boot"]

\* enterMode(m) at time t
LstEnterMode(l, m, t) == [l EXCEPT !.dbgMode = m, !.dbgAnimMs = t]

\* setup() up to enterMode(DBG_CAN_INIT)
LstSetupBoot ==
    /\ lst.pc = "boot"
    /\ lst' = [LstEnterMode(lst, "DBG_CAN_INIT", now) EXCEPT !.pc = "init"]
    /\ UNCHANGED <<now, ticks, ran, bus, air, sent, tx, rx, txb, probe, rxb, obs, ctl>>

\* setup() from CAN0.begin() on: Error, or Waiting-For-Data
LstSetupInit ==
    /\ lst.pc = "init"
    /\ \E ok \in BOOLEAN :
         lst' = IF ok
                THEN [LstEnterMode(lst, "DBG_WAITING_FOR_DATA", now) EXCEPT
                        !.pc = "can", !.haveSeenData = FALSE, !.lastFrameMs = now]
                ELSE [LstEnterMode(lst, "DBG_ERROR", now) EXCEPT !.pc = "can"]
    /\ UNCHANGED <<now, ticks, ran, bus, air, sent, tx, rx, txb, probe, rxb, obs, ctl>>

LstRecognized(f) ==
    f.id = U32(CAN_ID_VCFRONT_LIGHTING) /\ f.len = 8

\* the body of: if ((rxId == CAN_ID_VCFRONT_LIGHTING) && (len == 8)) { ... }
LstDecode(l, data, t) ==
    LET lStat == U64ToU8(extract_moto_be(data, 50, 2))
        rStat == U64ToU8(extract_moto_be(data, 52, 2))
        l1 == [l EXCEPT !.leftStatus = lStat, !.rightStatus = rStat,
                        !.lastFrameMs = t]
    IN  IF ~l.haveSeenData
        THEN LstEnterMode([l1 EXCEPT !.haveSeenData = TRUE], "DBG_RUNNING", t)
        ELSE l1

\* loop(), "Poll for CAN frames"
LstPoll ==
    /\ lst.pc = "can"
    /\ lst' = IF bus.f # NoFrame /\ LstRecognized(bus.f)
              THEN [LstDecode(lst, bus.f.data, now) EXCEPT !.pc = "timeout"]
              ELSE [lst EXCEPT !.pc = "timeout"]
    /\ bus' = BusRead(LstRecognized(bus.f))
    /\ UNCHANGED <<now, ticks, ran, air, sent, tx, rx, txb, probe, rxb, obs, ctl>>

\* the timeout handling with >= in place of >
LstTimeout_ge ==
    /\ lst.pc = "timeout"
    /\ LET l1 == IF /\ lst.dbgMode = "DBG_RUNNING"
                    /\ U32GeC(U32Sub(now, lst.lastFrameMs), LST_FRAME_TIMEOUT_MS)
                 THEN LstEnterMode([lst EXCEPT !.leftStatus = 0, !.rightStatus = 0,
                                               !.haveSeenData = FALSE],
                                   "DBG_WAITING_FOR_DATA", now)
                 ELSE lst
           l2 == IF /\ l1.dbgMode = "DBG_RUNNING"
                    /\ U32GtC(U32Sub(now, l1.lastRefresh), LST_REFRESH_MS)
                 THEN [l1 EXCEPT !.lastRefresh = now]
                 ELSE l1
       IN  lst' = [l2 EXCEPT !.pc = "can"]
    /\ ran' = ran \cup {"lst"}
    /\ UNCHANGED <<now, ticks, bus, air, sent, tx, rx, txb, probe, rxb, obs, ctl>>

\* loop(), "Timeout handling" and the periodic refresh
LstTimeout ==
    /\ lst.pc = "timeout"
    /\ LET l1 == IF /\ lst.dbgMode = "DBG_RUNNING"
                    /\ U32GtC(U32Sub(now, lst.lastFrameMs), LST_FRAME_TIMEOUT_MS)
                 THEN LstEnterMode([lst EXCEPT !.leftStatus = 0, !.rightStatus = 0,
                                               !.haveSeenData = FALSE],
                                   "DBG_WAITING_FOR_DATA", now)
                 ELSE lst
           l2 == IF /\ l1.dbgMode = "DBG_RUNNING"
                    /\ U32GtC(U32Sub(now, l1.lastRefresh), LST_REFRESH_MS)
                 THEN [l1 EXCEPT !.lastRefresh = now]
                 ELSE l1
       IN  lst' = [l2 EXCEPT !.pc = "can"]
    /\ ran' = ran \cup {"lst"}
    /\ UNCHANGED <<now, ticks, bus, air, sent, tx, rx, txb, probe, rxb, obs, ctl>>

---------------------------------------------------------------------------
(* Format-B transmitter: ESP_TX_WEB.ino *)

\* StateBits, all clear: memset(&g_pkt, 0, sizeof(g_pkt))
NoBits ==
    [left_on |-> 0, right_on |-> 0, ap_on |-> 0, charging |-> 0,
     plugged |-> 0, track_on |-> 0, reserved |-> 0]

\* the byte a StateBits occupies: bit-fields are allocated from bit 0 upwards
StateBitsByte(b) ==
    b.left_on + (2 * b.right_on) + (4 * b.ap_on) + (8 * b.charging)
      + (16 * b.plugged) + (32 * b.track_on) + (64 * b.reserved)

\* bitsEqual that compares the left_on bit alone
bitsEqual_left(a, b) == a.left_on = b.left_on

\* bitsEqual(a, b): the two bytes compare equal
bitsEqual(a, b) == StateBitsByte(a) = StateBitsByte(b)

\* parse_0x3F5 that takes every status code but OFF as on
parse_0x3F5_lit(d, b) ==
    LET leftStatus  == U64ToU8(extract_moto_be(d, 50, 2))
        rightStatus == U64ToU8(extract_moto_be(d, 52, 2))
    IN  [b EXCEPT !.left_on = IF leftStatus # 0 THEN 1 ELSE 0,
                  !.right_on = IF rightStatus # 0 THEN 1 ELSE 0,
                  !.ap_on = 0, !.charging = 0, !.plugged = 0, !.track_on = 0]

\* parse_0x3F5(d, b): b afterwards
parse_0x3F5(d, b) ==
    LET leftStatus  == U64ToU8(extract_moto_be(d, 50, 2))
        rightStatus == U64ToU8(extract_moto_be(d, 52, 2))
    IN  [b EXCEPT !.left_on = IF leftStatus = 1 THEN 1 ELSE 0,
                  !.right_on = IF rightStatus = 1 THEN 1 ELSE 0,
                  !.ap_on = 0, !.charging = 0, !.plugged = 0, !.track_on = 0]

\* the memory image of a TxPacket: what esp_now_send is given
TxPacketImage(p) == U32Bytes(p.seq) \o <<StateBitsByte(p.bits)>>

TxbOff ==
    [pc |-> "off", g_pkt |-> [seq |-> U32(0), bits |-> NoBits],
     g_prev |-> NoBits, g_seq |-> U32(0), g_lastSendMs |-> U32(0),
     g_haveCAN |-> FALSE]

\* the globals as initialized, before setup()
TxbBoot == [TxbOff EXCEPT !.pc = "setup"]

\* send_now() with g_seq++ in place of ++g_seq
send_now_post(b) ==
    LET b1 == [b EXCEPT !.g_seq = U32Add(b.g_seq, 1), !.g_pkt.seq = b.g_seq]
    IN  [t |-> b1, out |-> <<TxPacketImage(b1.g_pkt)>>]

\* send_now(): the transmitter afterwards, and what it sent
send_now(b) ==
    LET s == U32Add(b.g_seq, 1)
        b1 == [b EXCEPT !.g_seq = s, !.g_pkt.seq = s]
    IN  [t |-> b1, out |-> <<TxPacketImage(b1.g_pkt)>>]

\* setup(): esp_now_init or esp_now_add_peer may fail, and then setup never
\* returns; CAN0.begin may fail, and then the transmitter runs without CAN
TxbSetup ==
    /\ txb.pc = "setup"
    /\ \E radio \in BOOLEAN, can \in BOOLEAN :
         txb' = IF radio
                THEN [txb EXCEPT !.pc = "can", !.g_haveCAN = can,
                                 !.g_pkt = [seq |-> U32(0), bits |-> NoBits],
                                 !.g_prev = NoBits]
                ELSE [txb EXCEPT !.pc = "halt"]
    /\ UNCHANGED <<now, ticks, ran, bus, air, sent, tx, rx, lst, probe, rxb, obs, ctl>>

\* (id & 0x7FF) == CAN_ID_VCFRONT_LIGHTING && len == 8
TxbRecognized(f) ==
    (f.id.lo % TXB_ID_MASK) = CAN_ID_VCFRONT_LIGHTING /\ f.len = 8

\* handle_can_once()
TxbPoll ==
    /\ txb.pc = "can"
    /\ air = <<>>
    /\ IF txb.g_haveCAN /\ bus.f # NoFrame
       THEN /\ bus' = BusRead(TxbRecognized(bus.f))
            /\ LET nb == parse_0x3F5(bus.f.data, txb.g_pkt.bits)
               IN  IF TxbRecognized(bus.f) /\ ~bitsEqual(nb, txb.g_pkt.bits)
                   THEN LET r == send_now([txb EXCEPT !.g_pkt.bits = nb])
                        IN  /\ txb' = [r.t EXCEPT !.pc = "hb", !.g_lastSendMs = now]
                            /\ Transmit(r.out)
                   ELSE /\ txb' = [txb EXCEPT !.pc = "hb"]
                        /\ UNCHANGED <<air, sent>>
       ELSE /\ txb' = [txb EXCEPT !.pc = "hb"]
            /\ UNCHANGED <<bus, air, sent>>
    /\ UNCHANGED <<now, ticks, ran, tx, rx, lst, probe, rxb, obs, ctl>>

\* the heartbeat check with > in place of >=
TxbHeartbeat_gt ==
    /\ txb.pc = "hb"
    /\ air = <<>>
    /\ IF U32GtC(U32Sub(now, txb.g_lastSendMs), TXB_HEARTBEAT_MS)
       THEN LET r == send_now(txb)
            IN  /\ txb' = [r.t EXCEPT !.pc = "can", !.g_lastSendMs = now]
                /\ Transmit(r.out)
       ELSE /\ txb' = [txb EXCEPT !.pc = "can"]
            /\ UNCHANGED <<air, sent>>
    /\ ran' = ran \cup {"txb"}
    /\ UNCHANGED <<now, ticks, bus, tx, rx, lst, probe, rxb, obs, ctl>>

\* loop() after handle_can_once(): the heartbeat, then delay(CAN_POLL_GAP_MS)
TxbHeartbeat ==
    /\ txb.pc = "hb"
    /\ air = <<>>
    /\ IF U32GeC(U32Sub(now, txb.g_lastSendMs), TXB_HEARTBEAT_MS)
       THEN LET r == send_now(txb)
            IN  /\ txb' = [r.t EXCEPT !.pc = "can", !.g_lastSendMs = now]
                /\ Transmit(r.out)
       ELSE /\ txb' = [txb EXCEPT !.pc = "can"]
            /\ UNCHANGED <<air, sent>>
    /\ ran' = ran \cup {"txb"}
    /\ UNCHANGED <<now, ticks, bus, tx, rx, lst, probe, rxb, obs, ctl>>

---------------------------------------------------------------------------
(* Format-B receiver: ESP_RX_WEB.ino *)

TX_ALIVE_WINDOW_MS == 1500

\* setupAPAndWeb(): delay(100) after WiFi.softAP
AP_DELAY_MS == 100

\* startupFade(): 26 steps (i = 0, 4, ..., 100) of delay(10)
STARTUP_FADE_STEPS == 26
STARTUP_FADE_DELAY_MS == 10

DEFAULT_LEDS_LEFT == 67
DEFAULT_LEDS_RIGHT == 50
DEFAULT_TAIL_LEFT == 6
DEFAULT_TAIL_RIGHT == 6

\* the priorities
P_TURN == 0
P_CHARGING == 1
P_AUTOPILOT == 2
P_TRACK == 3
P_PLUGGED == 4
P_NONE == 255

\* handleLengths(): constrain(ll, 1, 600), constrain(tl, 0, 255)
LEN_MIN == 1
LEN_MAX == 600
TAIL_MAX == 255

RGB(r, g, b) == [r |-> r, g |-> g, b |-> b]

AMBIENT_DEFAULT == RGB(60, 0, 180)
TURN_COLOR == RGB(255, 128, 0)
AUTOPILOT_COLOR == RGB(0, 64, 255)
CHARGING_COLOR == RGB(0, 255, 0)
PLUGGED_COLOR == RGB(32, 32, 32)
TRACK_COLOR == RGB(255, 0, 64)

\* constrain(v, lo, hi)
constrain(v, lo, hi) == IF v < lo THEN lo ELSE IF v > hi THEN hi ELSE v

\* ms % period for a uint32_t ms and a uint16_t period
U32Mod(a, p) == (((a.hi % p) * (Half % p)) + a.lo) % p

\* a pixel as setPixelColor stores it: a colour, and, for a pulsing pixel, the
\* phase ms % period and the period that pulseFactor scales it by (the factor
\* 0.35 + 0.65 * 0.5 * (1 + sin(2 pi phase / period)) is floating point and is
\* kept as its arguments); <<>> for a colour that is not scaled
Pixel(c) == [color |-> c, pulse |-> <<>>]
\* scaleRGB(c, pulseFactor(ms, period))
PulsePixel(c, ms, period) == [color |-> c, pulse |-> <<U32Mod(ms, period), period>>]

\* a strip: px, its pixel buffer (pixel i of the code is px[i + 1]); oob, whether
\* setPixelColor was ever called with an index outside [0, numPixels())
Strip(n, p) == [px |-> [i \in 1 .. n |-> p], oob |-> FALSE]

\* updateLength(n): the buffer is reallocated and cleared
updateLength(s, n) == [s EXCEPT !.px = [i \in 1 .. n |-> Pixel(RGB(0, 0, 0))]]

\* for (i = from; i < n; ++i) s.setPixelColor((uint16_t)i, p): setPixelColor
\* ignores an index that is not below numPixels(); a negative int16_t i is a
\* large uint16_t
setPixels(s, from, p) ==
    LET n == Len(s.px)
    IN  [px  |-> [i \in 1 .. n |-> IF i - 1 >= from THEN p ELSE s.px[i]],
         oob |-> s.oob \/ (\E i \in from .. (n - 1) : i < 0 \/ i >= n)]

\* fillAmbient(s)
fillAmbient(s, ambient) == setPixels(s, 0, Pixel(ambient))

\* fillTail with st = n - tail left as it is when negative
fillTail_noclamp(s, p, tail) ==
    setPixels(s, Len(s.px) - tail, p)

\* fillTail(s, c, tail): st = n - tail; if (st < 0) st = 0
fillTail(s, p, tail) ==
    LET st == Len(s.px) - tail
    IN  setPixels(s, IF st < 0 THEN 0 ELSE st, p)

\* applyResponsiveness(rp) with a Chill status pulse as short as the turn pulse
applyResponsiveness_even(rp) ==
    CASE rp = 0 -> [g_respPreset |-> rp, g_turnPulseMs |-> 800,
                    g_statusPulseMs |-> 800, g_frameMs |-> 20,
                    g_turnLossHoldMs |-> 250]
      [] rp = 2 -> [g_respPreset |-> rp, g_turnPulseMs |-> 450,
                    g_statusPulseMs |-> 800, g_frameMs |-> 8,
                    g_turnLossHoldMs |-> 180]
      [] OTHER  -> [g_respPreset |-> rp, g_turnPulseMs |-> 600,
                    g_statusPulseMs |-> 1000, g_frameMs |-> 10,
                    g_turnLossHoldMs |-> 200]

\* applyResponsiveness(rp) with a Snappy hold of exactly the heartbeat period
applyResponsiveness_short(rp) ==
    CASE rp = 0 -> [g_respPreset |-> rp, g_turnPulseMs |-> 800,
                    g_statusPulseMs |-> 1200, g_frameMs |-> 20,
                    g_turnLossHoldMs |-> 250]
      [] rp = 2 -> [g_respPreset |-> rp, g_turnPulseMs |-> 450,
                    g_statusPulseMs |-> 800, g_frameMs |-> 8,
                    g_turnLossHoldMs |-> 120]
      [] OTHER  -> [g_respPreset |-> rp, g_turnPulseMs |-> 600,
                    g_statusPulseMs |-> 1000, g_frameMs |-> 10,
                    g_turnLossHoldMs |-> 200]

\* applyResponsiveness(rp): the four timings
applyResponsiveness(rp) ==
    CASE rp = 0 -> [g_respPreset |-> rp, g_turnPulseMs |-> 800,
                    g_statusPulseMs |-> 1200, g_frameMs |-> 20,
                    g_turnLossHoldMs |-> 250]
      [] rp = 2 -> [g_respPreset |-> rp, g_turnPulseMs |-> 450,
                    g_statusPulseMs |-> 800, g_frameMs |-> 8,
                    g_turnLossHoldMs |-> 180]
      [] OTHER  -> [g_respPreset |-> rp, g_turnPulseMs |-> 600,
                    g_statusPulseMs |-> 1000, g_frameMs |-> 10,
                    g_turnLossHoldMs |-> 200]

\* the bit-fields of the byte v
StateBitsOf(v) ==
    [left_on |-> BitOf(v, 0), right_on |-> BitOf(v, 1), ap_on |-> BitOf(v, 2),
     charging |-> BitOf(v, 3), plugged |-> BitOf(v, 4), track_on |-> BitOf(v, 5),
     reserved |-> (v \div 64) % 4]

\* memcpy(&tmp, incoming, sizeof(tmp))
RxPacketFrom(b) ==
    [seq |-> U32Of(b[3] + (256 * b[4]), b[1] + (256 * b[2])),
     bits |-> StateBitsOf(b[5])]

AllEffects ==
    [alerts |-> TRUE, turn |-> TRUE, charging |-> TRUE, ap |-> TRUE,
     track |-> TRUE, plugged |-> TRUE]

NoTurn == [active |-> FALSE, lastSeenMs |-> U32(0)]

\* updateTurnSide with >= in place of >
updateTurnSide_ge(ts, rawOn, t, hold) ==
    IF rawOn = 1 THEN [active |-> TRUE, lastSeenMs |-> t]
    ELSE IF ts.active /\ U32GeC(U32Sub(t, ts.lastSeenMs), hold)
         THEN [ts EXCEPT !.active = FALSE]
         ELSE ts

\* updateTurnSide(ts, rawOn, now)
updateTurnSide(ts, rawOn, t, hold) ==
    IF rawOn = 1 THEN [active |-> TRUE, lastSeenMs |-> t]
    ELSE IF ts.active /\ U32GtC(U32Sub(t, ts.lastSeenMs), hold)
         THEN [ts EXCEPT !.active = FALSE]
         ELSE ts

\* pickPriority without the test of the master alerts flag
pickPriority_noalerts(turnActive, b, eff) ==
    IF turnActive /\ eff.turn THEN P_TURN
    ELSE IF b.charging = 1 /\ eff.charging THEN P_CHARGING
    ELSE IF b.ap_on = 1 /\ eff.ap THEN P_AUTOPILOT
    ELSE IF b.track_on = 1 /\ eff.track THEN P_TRACK
    ELSE IF b.plugged = 1 /\ eff.plugged THEN P_PLUGGED
    ELSE P_NONE

\* pickPriority that tests charging before the turn signal
pickPriority_swapped(turnActive, b, eff) ==
    IF ~eff.alerts THEN P_NONE
    ELSE IF b.charging = 1 /\ eff.charging THEN P_CHARGING
    ELSE IF turnActive /\ eff.turn THEN P_TURN
    ELSE IF b.ap_on = 1 /\ eff.ap THEN P_AUTOPILOT
    ELSE IF b.track_on = 1 /\ eff.track THEN P_TRACK
    ELSE IF b.plugged = 1 /\ eff.plugged THEN P_PLUGGED
    ELSE P_NONE

\* pickPriority(turnActive, b)
pickPriority(turnActive, b, eff) ==
    IF ~eff.alerts THEN P_NONE
    ELSE IF turnActive /\ eff.turn THEN P_TURN
    ELSE IF b.charging = 1 /\ eff.charging THEN P_CHARGING
    ELSE IF b.ap_on = 1 /\ eff.ap THEN P_AUTOPILOT
    ELSE IF b.track_on = 1 /\ eff.track THEN P_TRACK
    ELSE IF b.plugged = 1 /\ eff.plugged THEN P_PLUGGED
    ELSE P_NONE

\* applySidePulse(s, pr, now, tail)
applySidePulse(s, pr, t, tail, ambient, timing) ==
    LET a == fillAmbient(s, ambient)
        tailOf(c, period) == fillTail(a, PulsePixel(c, t, period), tail)
    IN  CASE pr = P_TURN      -> tailOf(TURN_COLOR, timing.g_turnPulseMs)
          [] pr = P_CHARGING  -> tailOf(CHARGING_COLOR, timing.g_statusPulseMs)
          [] pr = P_AUTOPILOT -> tailOf(AUTOPILOT_COLOR, timing.g_statusPulseMs)
          [] pr = P_TRACK     -> tailOf(TRACK_COLOR, timing.g_statusPulseMs)
          [] pr = P_PLUGGED   -> tailOf(PLUGGED_COLOR, timing.g_statusPulseMs)
          [] OTHER            -> a

RxbOff ==
    [pc |-> "off", registered |-> FALSE, cb |-> "idle",
     g_lastPkt |-> [seq |-> U32(0), bits |-> NoBits], g_hasPkt |-> FALSE,
     g_lastPktMs |-> U32(0),
     g_leftTurn |-> NoTurn, g_rightTurn |-> NoTurn,
     g_eff |-> AllEffects,
     g_testMode |-> FALSE, g_testBits |-> NoBits,
     g_lenLeft |-> DEFAULT_LEDS_LEFT, g_lenRight |-> DEFAULT_LEDS_RIGHT,
     g_tailLeft |-> DEFAULT_TAIL_LEFT, g_tailRight |-> DEFAULT_TAIL_RIGHT,
     ambientColor |-> AMBIENT_DEFAULT,
     timing |-> applyResponsiveness(1),
     lastFrameMs |-> U32(0),
     stripL |-> Strip(DEFAULT_LEDS_LEFT, Pixel(RGB(0, 0, 0))),
     stripR |-> Strip(DEFAULT_LEDS_RIGHT, Pixel(RGB(0, 0, 0)))]

NoObs ==
    [n |-> 0, at |-> U32(0), bytes |-> <<>>, asked |-> 0, frames |-> 0,
     status |-> [at |-> U32(0), has |-> FALSE, seq |-> U32(0), bits |-> NoBits,
                 age |-> U32(0), txAlive |-> FALSE]]

\* setupAPAndWeb(), to setupEspNow(): esp_now_init may fail, and then no
\* receive callback is registered; setup goes on either way
RxbSetupAP ==
    /\ rxb.pc = "setup"
    /\ now' = U32Add(now, AP_DELAY_MS)
    /\ \E ok \in BOOLEAN : rxb' = [rxb EXCEPT !.pc = "start", !.registered = ok]
    /\ UNCHANGED <<ticks, ran, bus, air, sent, tx, rx, lst, txb, probe, obs, ctl>>

\* applyStripConfig(): updateLength on both strips, show()
applyStripConfig(r) ==
    [r EXCEPT !.stripL = updateLength(r.stripL, r.g_lenLeft),
              !.stripR = updateLength(r.stripR, r.g_lenRight)]

\* setupAPAndWeb(), from "Load prefs": the lengths and tails that
\* handleLengths stored in an earlier run, the
\* timings, the strips, and runStartup() with the default START_FADE, whose last
\* step shows the ambient colour at factor 1.0
RxbSetupStart ==
    /\ rxb.pc = "start"
    /\ now' = U32Add(now, STARTUP_FADE_STEPS * STARTUP_FADE_DELAY_MS)
    /\ \E c \in { [lenL |-> 4, lenR |-> 3, tailL |-> 2, tailR |-> 5] } :
         LET r == applyStripConfig(
                    [rxb EXCEPT !.g_lenLeft = c.lenL, !.g_lenRight = c.lenR,
                                !.g_tailLeft = c.tailL, !.g_tailRight = c.tailR,
                                !.timing = applyResponsiveness(rxb.timing.g_respPreset)])
         IN  rxb' = [r EXCEPT !.pc = "web",
                              !.stripL = Strip(r.g_lenLeft, Pixel(r.ambientColor)),
                              !.stripR = Strip(r.g_lenRight, Pixel(r.ambientColor))]
    /\ UNCHANGED <<ticks, ran, bus, air, sent, tx, rx, lst, txb, probe, obs, ctl>>

\* on_data_recv() that copies without the critical section: a reader runs
\* between the copy of seq and the copy of bits
RxbOnRecv_torn ==
    /\ air # <<>>
    /\ rxb.registered
    /\ rxb.cb = "idle"
    /\ IF Len(Head(air).bytes) = 5
       THEN /\ rxb' = [rxb EXCEPT !.cb = "stamp",
                                  !.g_lastPkt.seq = RxPacketFrom(Head(air).bytes).seq,
                                  !.g_hasPkt = TRUE]
            /\ air' = air
       ELSE /\ air' = Tail(air)
            /\ rxb' = rxb
    /\ UNCHANGED <<now, ticks, ran, bus, sent, tx, rx, lst, txb, probe, obs, ctl>>

\* on_data_recv() that takes the first five bytes of any payload long enough
RxbOnRecv_atleast ==
    /\ air # <<>>
    /\ rxb.registered
    /\ rxb.cb = "idle"
    /\ IF Len(Head(air).bytes) >= 5
       THEN /\ rxb' = [rxb EXCEPT !.cb = "stamp",
                                  !.g_lastPkt = RxPacketFrom(Head(air).bytes),
                                  !.g_hasPkt = TRUE]
            /\ air' = air
       ELSE /\ air' = Tail(air)
            /\ rxb' = rxb
    /\ UNCHANGED <<now, ticks, ran, bus, sent, tx, rx, lst, txb, probe, obs, ctl>>

\* on_data_recv() that keeps the packet with the higher sequence number
RxbOnRecv_newer ==
    /\ air # <<>>
    /\ rxb.registered
    /\ rxb.cb = "idle"
    /\ IF /\ Len(Head(air).bytes) = 5
          /\ \/ ~rxb.g_hasPkt
             \/ ~U32Ge(rxb.g_lastPkt.seq, RxPacketFrom(Head(air).bytes).seq)
       THEN /\ rxb' = [rxb EXCEPT !.cb = "stamp",
                                  !.g_lastPkt = RxPacketFrom(Head(air).bytes),
                                  !.g_hasPkt = TRUE]
            /\ air' = air
       ELSE /\ air' = Tail(air)
            /\ rxb' = rxb
    /\ UNCHANGED <<now, ticks, ran, bus, sent, tx, rx, lst, txb, probe, obs, ctl>>

\* on_data_recv(), to portEXIT_CRITICAL: a payload of sizeof(RxPacket) bytes is
\* copied into g_lastPkt; any other payload is dropped.  The callback runs in
\* the Wi-Fi task, beside loop().
RxbOnRecv ==
    /\ air # <<>>
    /\ rxb.registered
    /\ rxb.cb = "idle"
    /\ IF Len(Head(air).bytes) = 5
       THEN /\ rxb' = [rxb EXCEPT !.cb = "stamp",
                                  !.g_lastPkt = RxPacketFrom(Head(air).bytes),
                                  !.g_hasPkt = TRUE]
            /\ air' = air
       ELSE /\ air' = Tail(air)
            /\ rxb' = rxb
    /\ UNCHANGED <<now, ticks, ran, bus, sent, tx, rx, lst, txb, probe, obs, ctl>>

\* on_data_recv(), g_lastPktMs = millis()
RxbOnRecvStamp ==
    /\ rxb.cb = "stamp"
    /\ rxb' = [rxb EXCEPT !.cb = "idle", !.g_lastPktMs = now]
    /\ obs' = [obs EXCEPT !.n = obs.n + 1, !.at = now, !.bytes = Head(air).bytes]
    /\ air' = Tail(air)
    /\ UNCHANGED <<now, ticks, ran, bus, sent, tx, rx, lst, txb, probe, ctl>>

\* a payload arrives at a receiver whose esp_now_init failed
RxbUnheard ==
    /\ air # <<>>
    /\ rxb.pc # "off"
    /\ ~rxb.registered
    /\ air' = Tail(air)
    /\ UNCHANGED <<now, ticks, ran, bus, sent, tx, rx, lst, txb, probe, rxb, obs, ctl>>

\* loop(), server.handleClient() with no request waiting
RxbNoClient ==
    /\ rxb.pc = "web"
    /\ rxb' = [rxb EXCEPT !.pc = "frame"]
    /\ UNCHANGED <<now, ticks, ran, bus, air, sent, tx, rx, lst, txb, probe, obs, ctl>>

\* handleStatus(), also at the end of handleDebug() and handlePktLog(): the
\* snapshot of g_lastPkt and g_hasPkt under the critical section, then the age
\* from g_lastPktMs
handleStatus(r, t) ==
    LET age == IF r.g_lastPktMs = U32(0) THEN U32(0) ELSE U32Sub(t, r.g_lastPktMs)
    IN  [at |-> t, has |-> r.g_hasPkt, seq |-> r.g_lastPkt.seq,
         bits |-> r.g_lastPkt.bits, age |-> age,
         txAlive |-> r.g_lastPktMs # U32(0) /\ ~U32GtC(age, TX_ALIVE_WINDOW_MS)]

\* a web request is served: the receiver and the observation afterwards
Served(r, o) ==
    /\ rxb.pc = "web"
    /\ rxb' = [r EXCEPT !.pc = "frame"]
    /\ obs' = [o EXCEPT !.asked = obs.asked + 1]
    /\ UNCHANGED <<now, ticks, ran, bus, air, sent, tx, rx, lst, txb, probe, ctl>>

RxbHandleStatus(maxRequests) ==
    /\ obs.asked < maxRequests
    /\ Served(rxb, [obs EXCEPT !.status = handleStatus(rxb, now)])

\* handleEffects(): each flag is set iff its argument is present
RxbHandleEffects(maxRequests, E) ==
    /\ obs.asked < maxRequests
    /\ \E e \in E : Served([rxb EXCEPT !.g_eff = e], obs)

\* handleTest(): test mode and each test bit are set iff the argument is present
RxbHandleTest(maxRequests, T) ==
    /\ obs.asked < maxRequests
    /\ \E a \in T :
         Served([rxb EXCEPT !.g_testMode = a.tm, !.g_testBits = StateBitsOf(a.bits)],
                obs)

\* handleLengths(): the arguments ll, lr, tl, tr, constrained; on a change the
\* strips are reconfigured
handleLengths(r, a) ==
    LET ll == constrain(a.ll, LEN_MIN, LEN_MAX)
        lr == constrain(a.lr, LEN_MIN, LEN_MAX)
        tl == constrain(a.tl, 0, TAIL_MAX)
        tr == constrain(a.tr, 0, TAIL_MAX)
    IN  IF ll # r.g_lenLeft \/ lr # r.g_lenRight
             \/ tl # r.g_tailLeft \/ tr # r.g_tailRight
        THEN applyStripConfig([r EXCEPT !.g_lenLeft = ll, !.g_lenRight = lr,
                                        !.g_tailLeft = tl, !.g_tailRight = tr])
        ELSE r

RxbHandleLengths(maxRequests, L) ==
    /\ obs.asked < maxRequests
    /\ \E a \in L : Served(handleLengths(rxb, a), obs)

\* handleStartPins(): a changed pin reconfigures the strips; the argument rp,
\* constrained to 0..2, selects the timings
RxbHandleStartPins(maxRequests, R) ==
    /\ obs.asked < maxRequests
    /\ \E rp \in R, pinChanged \in BOOLEAN :
         LET r == IF pinChanged THEN applyStripConfig(rxb) ELSE rxb
         IN  Served([r EXCEPT !.timing = applyResponsiveness(constrain(rp, 0, 2))], obs)

\* handleSet(): the ambient colour
RxbHandleSet(maxRequests, C) ==
    /\ obs.asked < maxRequests
    /\ \E c \in C : Served([rxb EXCEPT !.ambientColor = c], obs)

\* a frame that leaves the strips as they are while there is no packet
RxbRender_stale(r, t) ==
    LET srcBits == IF r.g_testMode THEN r.g_testBits ELSE r.g_lastPkt.bits
        has == r.g_testMode \/ r.g_hasPkt
        hold == r.timing.g_turnLossHoldMs
        lt == updateTurnSide(r.g_leftTurn, srcBits.left_on, t, hold)
        rt == updateTurnSide(r.g_rightTurn, srcBits.right_on, t, hold)
        prL == pickPriority(lt.active, srcBits, r.g_eff)
        prR == pickPriority(rt.active, srcBits, r.g_eff)
    IN  IF ~has
        THEN [r EXCEPT !.lastFrameMs = t]
        ELSE [r EXCEPT !.lastFrameMs = t,
                       !.g_leftTurn = lt, !.g_rightTurn = rt,
                       !.stripL = applySidePulse(r.stripL, prL, t, r.g_tailLeft,
                                                 r.ambientColor, r.timing),
                       !.stripR = applySidePulse(r.stripR, prR, t, r.g_tailRight,
                                                 r.ambientColor, r.timing)]

\* a frame that takes the packet's bits only while the transmitter is alive
RxbRender_alive(r, t) ==
    LET srcBits == IF r.g_testMode THEN r.g_testBits ELSE r.g_lastPkt.bits
        has == r.g_testMode
                 \/ (r.g_hasPkt /\ ~U32GtC(U32Sub(t, r.g_lastPktMs), TX_ALIVE_WINDOW_MS))
        hold == r.timing.g_turnLossHoldMs
        lt == updateTurnSide(r.g_leftTurn, srcBits.left_on, t, hold)
        rt == updateTurnSide(r.g_rightTurn, srcBits.right_on, t, hold)
        prL == pickPriority(lt.active, srcBits, r.g_eff)
        prR == pickPriority(rt.active, srcBits, r.g_eff)
    IN  IF ~has
        THEN [r EXCEPT !.lastFrameMs = t,
                       !.stripL = fillAmbient(r.stripL, r.ambientColor),
                       !.stripR = fillAmbient(r.stripR, r.ambientColor)]
        ELSE [r EXCEPT !.lastFrameMs = t,
                       !.g_leftTurn = lt, !.g_rightTurn = rt,
                       !.stripL = applySidePulse(r.stripL, prL, t, r.g_tailLeft,
                                                 r.ambientColor, r.timing),
                       !.stripR = applySidePulse(r.stripR, prR, t, r.g_tailRight,
                                                 r.ambientColor, r.timing)]

\* loop() that renders from the last packet in test mode too
RxbRender_notest(r, t) ==
    LET srcBits == r.g_lastPkt.bits
        has == r.g_hasPkt
        hold == r.timing.g_turnLossHoldMs
        lt == updateTurnSide(r.g_leftTurn, srcBits.left_on, t, hold)
        rt == updateTurnSide(r.g_rightTurn, srcBits.right_on, t, hold)
        prL == pickPriority(lt.active, srcBits, r.g_eff)
        prR == pickPriority(rt.active, srcBits, r.g_eff)
    IN  IF ~has
        THEN [r EXCEPT !.lastFrameMs = t,
                       !.stripL = fillAmbient(r.stripL, r.ambientColor),
                       !.stripR = fillAmbient(r.stripR, r.ambientColor)]
        ELSE [r EXCEPT !.lastFrameMs = t,
                       !.g_leftTurn = lt, !.g_rightTurn = rt,
                       !.stripL = applySidePulse(r.stripL, prL, t, r.g_tailLeft,
                                                 r.ambientColor, r.timing),
                       !.stripR = applySidePulse(r.stripR, prR, t, r.g_tailRight,
                                                 r.ambientColor, r.timing)]

\* loop() from "Snapshot of bits": the frame rendered at time t
RxbRender(r, t) ==
    LET srcBits == IF r.g_testMode THEN r.g_testBits ELSE r.g_lastPkt.bits
        has == r.g_testMode \/ r.g_hasPkt
        hold == r.timing.g_turnLossHoldMs
        lt == updateTurnSide(r.g_leftTurn, srcBits.left_on, t, hold)
        rt == updateTurnSide(r.g_rightTurn, srcBits.right_on, t, hold)
        prL == pickPriority(lt.active, srcBits, r.g_eff)
        prR == pickPriority(rt.active, srcBits, r.g_eff)
    IN  IF ~has
        THEN [r EXCEPT !.lastFrameMs = t,
                       !.stripL = fillAmbient(r.stripL, r.ambientColor),
                       !.stripR = fillAmbient(r.stripR, r.ambientColor)]
        ELSE [r EXCEPT !.lastFrameMs = t,
                       !.g_leftTurn = lt, !.g_rightTurn = rt,
                       !.stripL = applySidePulse(r.stripL, prL, t, r.g_tailLeft,
                                                 r.ambientColor, r.timing),
                       !.stripR = applySidePulse(r.stripR, prR, t, r.g_tailRight,
                                                 r.ambientColor, r.timing)]

\* loop() that compares millis() with the time the next frame is due
RxbFrame_due ==
    /\ rxb.pc = "frame"
    /\ IF ~U32Ge(now, U32Add(rxb.lastFrameMs, rxb.timing.g_frameMs))
       THEN /\ rxb' = [rxb EXCEPT !.pc = "web"]
            /\ obs' = obs
       ELSE /\ rxb' = [RxbRender(rxb, now) EXCEPT !.pc = "web"]
            /\ obs' = [obs EXCEPT !.frames = obs.frames + 1]
    /\ ran' = ran \cup {"rxb"}
    /\ UNCHANGED <<now, ticks, bus, air, sent, tx, rx, lst, txb, probe, ctl>>

\* loop() after server.handleClient(): nothing until the frame period has
\* elapsed, then a frame
RxbFrame ==
    /\ rxb.pc = "frame"
    /\ IF ~U32GeC(U32Sub(now, rxb.lastFrameMs), rxb.timing.g_frameMs)
       THEN /\ rxb' = [rxb EXCEPT !.pc = "web"]
            /\ obs' = obs
       ELSE /\ rxb' = [RxbRender(rxb, now) EXCEPT !.pc = "web"]
            /\ obs' = [obs EXCEPT !.frames = obs.frames + 1]
    /\ ran' = ran \cup {"rxb"}
    /\ UNCHANGED <<now, ticks, bus, air, sent, tx, rx, lst, txb, probe, ctl>>

\* a payload from the set P reaches the receiver's radio
RadioDeliver(P, maxPackets) ==
    /\ air = <<>>
    /\ sent.n < maxPackets
    /\ rxb.pc # "off"
    /\ \E b \in P :
         /\ air' = <<[bytes |-> b, tag |-> "intact"]>>
         /\ sent' = [sent EXCEPT !.n = sent.n + 1, !.at = now, !.bytes = b]
    /\ UNCHANGED <<now, ticks, ran, bus, tx, rx, lst, txb, probe, rxb, obs, ctl>>

---------------------------------------------------------------------------
(* 5-strip LED controller: src/unnamed/part_000 *)

\* the entries of ANIMS[]; entry 0 is Solid
NUM_ANIMS == 5

\* the globals as initialized, with the settings of loadDefaults()
CtlOff ==
    [pc |-> "off",
     settings |-> [startupAnimationId |-> 0, startupDurationSec |-> 5,
                   startupFadeMs |-> 1000],
     activeAnimation |-> [i \in 1 .. 5 |-> 0],
     startupActive |-> FALSE, startupDeadline |-> U32(0),
     fadePhase |-> 0, fadeStart |-> U32(0), globalDimmer |-> 100]

\* activeAnimation[i] = 0 for every strip
CtlAllSolid(c) == [c EXCEPT !.activeAnimation = [i \in 1 .. 5 |-> 0]]

\* setup(), from "Startup animation preset"
CtlSetup ==
    /\ ctl.pc = "setup"
    /\ ctl' = [ctl EXCEPT
                 !.pc = "loop",
                 !.activeAnimation =
                     [i \in 1 .. 5 |->
                        IF ctl.settings.startupAnimationId < NUM_ANIMS - 1
                        THEN ctl.settings.startupAnimationId ELSE NUM_ANIMS - 1],
                 !.startupActive = (ctl.settings.startupDurationSec > 0),
                 !.startupDeadline = U32Add(now, ctl.settings.startupDurationSec * 1000),
                 !.globalDimmer = 100, !.fadePhase = 0, !.fadeStart = U32(0)]
    /\ UNCHANGED <<now, ticks, ran, bus, air, sent, tx, rx, lst, txb, probe, rxb, obs>>

\* loop(), the startup timeout: without a fade, the hand-over at the
\* deadline; with a fade, "begin fade down"
CtlDeadline ==
    /\ ctl.pc = "loop"
    /\ ctl' =
         IF ~ctl.startupActive \/ ~U32Ge(now, ctl.startupDeadline)
         THEN [ctl EXCEPT !.pc = "fade"]
         ELSE IF ctl.settings.startupFadeMs = 0
         THEN [CtlAllSolid(ctl) EXCEPT !.pc = "fade", !.startupActive = FALSE,
                                       !.globalDimmer = 100, !.fadePhase = 0]
         ELSE IF ctl.fadePhase = 0
         THEN [ctl EXCEPT !.pc = "fade", !.fadePhase = 1, !.fadeStart = now]
         ELSE [ctl EXCEPT !.pc = "fade"]
    /\ UNCHANGED <<now, ticks, ran, bus, air, sent, tx, rx, lst, txb, probe, rxb, obs>>

\* loop(), the fade down and the fade up, then the animations.  The dimmer is
\* (uint8_t)(100.0f * (1.0f - p)) or (uint8_t)(100.0f * p) with the float
\* p = dt / half: the integer part of the exact quotient wherever the float
\* arithmetic is exact.
CtlFade ==
    /\ ctl.pc = "fade"
    /\ LET fadeMs == ctl.settings.startupFadeMs
           dt == U32Sub(now, ctl.fadeStart)
           down == fadeMs \div 2
           up == fadeMs - (fadeMs \div 2)
       IN  ctl' =
             IF ~ctl.startupActive \/ fadeMs = 0 THEN [ctl EXCEPT !.pc = "loop"]
             ELSE IF ctl.fadePhase = 1
             THEN IF U32GeC(dt, down)
                  THEN [CtlAllSolid(ctl) EXCEPT !.pc = "loop", !.globalDimmer = 0,
                                                !.fadePhase = 2, !.fadeStart = now]
                  ELSE [ctl EXCEPT !.pc = "loop",
                                   !.globalDimmer = (100 * (down - dt.lo)) \div down]
             ELSE IF ctl.fadePhase = 2
             THEN IF U32GeC(dt, up)
                  THEN [ctl EXCEPT !.pc = "loop", !.globalDimmer = 100,
                                   !.startupActive = FALSE, !.fadePhase = 0]
                  ELSE [ctl EXCEPT !.pc = "loop",
                                   !.globalDimmer = (100 * dt.lo) \div up]
             ELSE [ctl EXCEPT !.pc = "loop"]
    /\ ran' = ran \cup {"ctl"}
    /\ UNCHANGED <<now, ticks, bus, air, sent, tx, rx, lst, txb, probe, rxb, obs>>

---------------------------------------------------------------------------
(* The environment: time, the vehicle bus, radio noise *)

\* the devices that are in loop()
Looping ==
    {d \in {"tx", "rx", "lst", "txb", "rxb", "ctl"} :
        \/ d = "ctl" /\ ctl.pc \in {"loop", "fade"}
        \/ d = "tx" /\ tx.pc \in {"can", "hb"}
        \/ d = "rx" /\ rx.pc \in {"loop", "timeout"}
        \/ d = "lst" /\ lst.pc \in {"can", "timeout"}
        \/ d = "txb" /\ txb.pc \in {"can", "hb"}
        \/ d = "rxb" /\ rxb.pc \in {"web", "frame"}}

\* the devices that are in setup()
Starting ==
    {d \in {"tx", "rx", "lst", "txb", "rxb", "ctl"} :
        \/ d = "ctl" /\ ctl.pc = "setup"
        \/ d = "tx" /\ tx.pc = "setup"
        \/ d = "rx" /\ rx.pc \in {"boot", "init"}
        \/ d = "lst" /\ lst.pc \in {"boot", "init"}
        \/ d = "txb" /\ txb.pc = "setup"
        \/ d = "rxb" /\ rxb.pc \in {"setup", "start"}}

\* time passes.  setup() and an iteration of loop() are shorter than a clock
\* step: every device leaves setup() within the first step and completes an
\* iteration of loop() between two steps; a payload handed to the radio is
\* delivered before the next step.
Tick(maxTicks, step) ==
    /\ ticks < maxTicks
    /\ air = <<>>
    /\ Starting = {}
    /\ Looping \subseteq ran
    /\ now' = U32Add(now, step)
    /\ ticks' = ticks + 1
    /\ ran' = {}
    /\ UNCHANGED <<bus, air, sent, tx, rx, lst, txb, probe, rxb, obs, ctl>>

\* the MCP2515 receives a frame from the set F into its empty buffer
BusFrame(F, maxFrames) ==
    /\ bus.f = NoFrame
    /\ bus.n < maxFrames
    /\ \E f \in F : bus' = [bus EXCEPT !.f = f, !.n = bus.n + 1]
    /\ UNCHANGED <<now, ticks, ran, air, sent, tx, rx, lst, txb, probe, rxb, obs, ctl>>

NoBus == [f |-> NoFrame, n |-> 0, read |-> <<>>]

\* the payload in flight, with its bytes replaced by b and tagged
Damaged(b, tag) == <<[bytes |-> b, tag |-> tag]>> \o Tail(air)

\* one bit of the payload in flight is flipped
RadioFlipBit ==
    /\ air # <<>>
    /\ Head(air).tag = "intact"
    /\ \E i \in 1 .. Len(Head(air).bytes), k \in 0 .. 7 :
         air' = Damaged([Head(air).bytes EXCEPT ![i] = Xor8(@, Pow2(k))], "bitflip")
    /\ UNCHANGED <<now, ticks, ran, bus, sent, tx, rx, lst, txb, probe, rxb, obs, ctl>>

\* the payload in flight loses its last byte, or gains a byte
RadioResize ==
    /\ air # <<>>
    /\ Head(air).tag = "intact"
    /\ \/ air' = Damaged(SubSeq(Head(air).bytes, 1, Len(Head(air).bytes) - 1), "length")
       \/ \E b \in {0, 255} : air' = Damaged(Append(Head(air).bytes, b), "length")
    /\ UNCHANGED <<now, ticks, ran, bus, sent, tx, rx, lst, txb, probe, rxb, obs, ctl>>

\* the bytes b with byte i set to v and the trailing checksum made right again
Forged(b, i, v) ==
    LET c == [b EXCEPT ![i] = v]
    IN  [c EXCEPT ![Len(b)] = XorBytes(c, Len(b) - 1)]

\* a payload that is well-formed but for its magic, or for its version
RadioForeign ==
    /\ air # <<>>
    /\ Head(air).tag = "intact"
    /\ \/ \E v \in {0, 90, 164, 255} :
            air' = Damaged(Forged(Head(air).bytes, 1, v), "magic")
       \/ \E v \in {0, 2, 255} :
            air' = Damaged(Forged(Head(air).bytes, 2, v), "version")
    /\ UNCHANGED <<now, ticks, ran, bus, sent, tx, rx, lst, txb, probe, rxb, obs, ctl>>

\* the checksum byte of the payload in flight is replaced by another value
RadioBadCrc ==
    /\ air # <<>>
    /\ Head(air).tag = "intact"
    /\ \E d \in {1, 128, 255} :
         air' = Damaged([Head(air).bytes EXCEPT
                           ![Len(Head(air).bytes)] = (@ + d) % 256], "crc")
    /\ UNCHANGED <<now, ticks, ran, bus, sent, tx, rx, lst, txb, probe, rxb, obs, ctl>>

---------------------------------------------------------------------------
(* Frames on the bus *)

\* recognized lighting frames: every pair of status codes, the other bits of
\* the payload all 0 or all 1
LightingFrames ==
    { Frame(StdId(CAN_ID_VCFRONT_LIGHTING), 8, LightingData(l, r, (l + r) % 2)) :
        l \in 0 .. 3, r \in 0 .. 3 }

\* frames whose id is not 0x3F5 or whose length is not 8: another 11-bit id, a
\* short frame that still carries byte 6, an empty frame, and an extended
\* frame whose 29-bit id 0xBF5 agrees with 0x3F5 in its low 11 bits
OtherFrames ==
    { Frame(StdId(1012), 8, LightingData(1, 1, 0)),
      Frame(StdId(CAN_ID_VCFRONT_LIGHTING), 7,
            [LightingData(1, 2, 1) EXCEPT ![8] = 0]),
      Frame(StdId(CAN_ID_VCFRONT_LIGHTING), 0, [i \in 1 .. 8 |-> 0]),
      Frame(ExtId(0, 2048 + CAN_ID_VCFRONT_LIGHTING), 8, LightingData(1, 0, 0)) }

\* a few of them
SomeLightingFrames ==
    { Frame(StdId(CAN_ID_VCFRONT_LIGHTING), 8, LightingData(1, 0, 0)),
      Frame(StdId(CAN_ID_VCFRONT_LIGHTING), 8, LightingData(2, 3, 1)) }

---------------------------------------------------------------------------
(* Format-A pair: transmitter and receiver, both just powered on *)

NoProbe == [data |-> <<>>, startBit |-> 0, len |-> 0, out |-> <<>>]

\* Long after power-on: the bus went quiet long ago, the transmitter has sent
\* seq payloads and a heartbeat check has just run; the receiver has lost the
\* link and waits for it.  The clock w is about to carry into its upper half
\* or to wrap around.
WarmWrap == [now |-> U32Of(65535, 65036), seq |-> 65534]    \* 2^32 - 500

WarmStarts ==
    { WarmWrap, [now |-> U32Of(4660, 65236), seq |-> 254] }     \* 0x1234FED4

TxWarm(w) ==
    [TxOff EXCEPT !.pc = "can", !.seq = w.seq, !.lastHeartbeatMs = w.now,
                  !.prevL = 0, !.prevR = 0, !.prevFlags = 0]

RxWarm ==
    [RxOff EXCEPT !.pc = "loop", !.registered = TRUE,
                  !.mode_ = "DBG_WAITING_FOR_LINK",
                  !.linkBlinkStep = LINK_BLINK_COUNT * 2]

\* what is the same in every initial state
InitEnv ==
    /\ ticks = 0
    /\ ran = {}
    /\ bus = NoBus
    /\ air = <<>>
    /\ sent = NoneSent

\* transmitter and receiver powered on together
InitA ==
    /\ InitEnv
    /\ lst = LstOff
    /\ txb = TxbOff
    /\ probe = NoProbe
    /\ rxb = RxbOff
    /\ obs = NoObs
    /\ ctl = CtlOff
    /\ now = U32(0) /\ tx = TxBoot /\ rx = RxBoot

\* ... or running for a long time already
InitAWarm ==
    /\ InitEnv
    /\ lst = LstOff
    /\ txb = TxbOff
    /\ probe = NoProbe
    /\ rxb = RxbOff
    /\ obs = NoObs
    /\ ctl = CtlOff
    /\ \E w \in WarmStarts : now = w.now /\ tx = TxWarm(w) /\ rx = RxWarm

NextA ==
    \/ TxSetup \/ TxPoll \/ TxHeartbeat
    \/ RxSetupBoot \/ RxSetupInit \/ RxOnRecv \/ RadioUnheard \/ RxLoop
    \/ Tick(MaxTicks, TickMs) \/ BusFrame(SomeLightingFrames, MaxFrames)

\* the pair over a lossless radio, from power-on
SpecA == InitA /\ [][NextA]_vars

\* the pair from power-on with the receiver's scheduling: its loop() is called
\* again and again
SpecALive == SpecA /\ WF_vars(RxLoop)

\* the pair from power-on, with the receiver's callback running at any point
\* of loop()'s link supervision
SpecARace == InitA /\ [][NextA \/ RxLoopEnter \/ RxLoopTimeout]_vars

\* the pair over a lossless radio, from power-on or long after it
SpecAWarm == (InitA \/ InitAWarm) /\ [][NextA]_vars

\* the transmitter restarted beside a receiver that has run for 2^32 ms: the
\* receiver is linked and shows LEFT = ON, RIGHT = FAULT from the last payload
\* it heard, 900 ms before the restart
InitARelink ==
    /\ InitEnv
    /\ lst = LstOff
    /\ txb = TxbOff
    /\ probe = NoProbe
    /\ rxb = RxbOff
    /\ obs = NoObs
    /\ ctl = CtlOff
    /\ now = U32(0)
    /\ tx = TxBoot
    /\ rx = [RxOff EXCEPT !.pc = "loop", !.registered = TRUE,
                          !.mode_ = "DBG_RUNNING",
                          !.linkSeen = TRUE, !.haveSeenData = TRUE,
                          !.leftStatus = 1, !.rightStatus = 2,
                          !.lastPktMs = U32Sub(U32(0), U32(900)),
                          !.lastShowMs = U32Sub(U32(0), U32(100)),
                          !.linkBlinkStep = LINK_BLINK_COUNT * 2]

\* the pair from power-on, or the transmitter restarted beside a linked receiver
SpecARelink == (InitA \/ InitARelink) /\ [][NextA]_vars

\* the bounds on the clock steps and on the bus frames of a run over the
\* noisy radio
NoisyTicks == 1

NoisyFrames == 2

NextANoisy ==
    \/ TxSetup \/ TxPoll \/ TxHeartbeat
    \/ RxSetupBoot \/ RxSetupInit \/ RxOnRecv \/ RadioUnheard \/ RxLoop
    \/ Tick(NoisyTicks, TickMs) \/ BusFrame(SomeLightingFrames, NoisyFrames)
    \/ RadioFlipBit \/ RadioResize \/ RadioForeign \/ RadioBadCrc

\* the pair over a radio that damages payloads and carries foreign ones, from
\* power-on or shortly before the clock wraps around
SpecANoisy ==
    (InitA \/ (InitAWarm /\ now = WarmWrap.now)) /\ [][NextANoisy]_vars

---------------------------------------------------------------------------
(* Format-A codec: claims *)

\* the receive callback runs for a payload with this tag
Hears(tag) ==
    /\ air # <<>>
    /\ rx.registered
    /\ Head(air).tag = tag
    /\ air' = Tail(air)

\* C1 as stated: the payload sendPacket builds is 11 bytes long, passes onRecv's
\* length, magic, version and checksum validation, and the receiver recovers the
\* encoded leftStatus, rightStatus and data-seen flag.
C1_RoundTrip11 ==
    [][Hears("intact") =>
         /\ Len(Head(air).bytes) = 11
         /\ rx'.linkSeen /\ rx'.lastPktMs = now
         /\ rx'.leftStatus = tx.leftStatus
         /\ rx'.rightStatus = tx.rightStatus
         /\ rx'.haveSeenData = tx.haveSeenData]_vars

\* C1 (amended): the payload sendPacket builds is sizeof(Payload) = 12 bytes
\* long; it passes onRecv's length, magic, version and checksum validation, the
\* receiver recovers the leftStatus, rightStatus and data-seen flag that were
\* encoded, and the sequence number and sender clock read back from the bytes
\* are the ones that were written.
C1_RoundTrip ==
    [][Hears("intact") =>
         /\ Len(Head(air).bytes) = 12
         /\ rx'.linkSeen /\ rx'.lastPktMs = now
         /\ rx'.leftStatus = tx.leftStatus
         /\ rx'.rightStatus = tx.rightStatus
         /\ rx'.haveSeenData = tx.haveSeenData
         /\ PayloadFrom(Head(air).bytes).seq = tx.seq
         /\ PayloadFrom(Head(air).bytes).ms = sent.at]_vars

\* a payload with statuses FAULT / SIGNAL-NOT-AVAILABLE and the data-seen flag,
\* sent after the sequence counter wrapped, has been decoded by the receiver
C1_Witness ==
    /\ sent.heard = "intact"
    /\ air = <<>>
    /\ sent.n > 0
    /\ tx.seq = 0
    /\ rx.linkSeen /\ rx.haveSeenData
    /\ rx.leftStatus = 2 /\ rx.rightStatus = 3

\* C2: a payload that differs from a valid one in exactly one bit, in any of
\* its bytes, is rejected by onRecv and leaves the receiver's state as it was.
C2_BitFlipRejected ==
    [][Hears("bitflip") => rx' = rx]_vars

\* a bit-flipped payload was the last one the callback ran for, at a receiver
\* that is linked and Running
C2_Witness ==
    /\ sent.heard = "bitflip"
    /\ rx.linkSeen
    /\ rx.mode_ = "DBG_RUNNING"
    /\ rx.leftStatus = 1

\* C3: a payload of the wrong length, with the wrong magic, the wrong version or
\* a corrupted checksum byte changes nothing in the receiver: statuses,
\* haveSeenData, linkSeen, lastPktMs, mode and link-blink variables keep their
\* values.
C3_RejectedNoMutation ==
    [][(\E tag \in {"length", "magic", "version", "crc"} : Hears(tag)) =>
         /\ rx'.leftStatus = rx.leftStatus
         /\ rx'.rightStatus = rx.rightStatus
         /\ rx'.haveSeenData = rx.haveSeenData
         /\ rx'.linkSeen = rx.linkSeen
         /\ rx'.lastPktMs = rx.lastPktMs
         /\ rx'.mode_ = rx.mode_
         /\ rx'.linkBlinkActive = rx.linkBlinkActive
         /\ rx'.linkBlinkStep = rx.linkBlinkStep
         /\ rx'.linkBlinkNext = rx.linkBlinkNext
         /\ rx' = rx]_vars

\* a payload with a corrupted checksum byte was the last one the callback ran
\* for, at a linked receiver, later than the last accepted payload
C3_Witness ==
    /\ sent.heard = "crc"
    /\ rx.linkSeen
    /\ rx.lastPktMs # now
    /\ rx.mode_ = "DBG_RUNNING"

---------------------------------------------------------------------------
(* Format-A heartbeat: claims *)

\* the heartbeat check of loop() runs with the heartbeat period elapsed
TxHeartbeatDue ==
    /\ tx.pc = "hb"
    /\ tx'.pc = "can"
    /\ U32GtC(U32Sub(now, tx.lastHeartbeatMs), HEARTBEAT_MS)

\* C7: at every heartbeat period a payload is transmitted, also when the
\* statuses and the data-seen flag have not changed and no frame has arrived.
C7_HeartbeatSends ==
    [][TxHeartbeatDue => sent'.n = sent.n + 1]_vars

\* C10: over a lossless radio a linked receiver never declares link loss while
\* the transmitter is running.
C10_LinkNeverLost ==
    [][(rx.linkSeen /\ tx.pc \in {"can", "hb"}) => rx'.linkSeen]_vars

---------------------------------------------------------------------------
(* One device on the bus: the format-A transmitter, the listener or the    *)
(* format-B transmitter, with nobody listening to the radio                *)

\* the clock step of these runs, the bound on their clock steps and on the
\* frames the bus delivers
BusTickMs == 40

BusTicks == 2

BusFrames == 2

InitBus ==
    /\ InitEnv
    /\ probe = NoProbe
    /\ rxb = RxbOff
    /\ obs = NoObs
    /\ ctl = CtlOff
    /\ rx = RxOff
    /\ now = U32(0)
    /\ \/ tx = TxBoot /\ lst = LstOff /\ txb = TxbOff
       \/ tx = TxOff /\ lst = LstBoot /\ txb = TxbOff
       \/ tx = TxOff /\ lst = LstOff /\ txb = TxbBoot

NextBus ==
    \/ TxSetup \/ TxPoll \/ TxHeartbeat
    \/ LstSetupBoot \/ LstSetupInit \/ LstPoll \/ LstTimeout
    \/ TxbSetup \/ TxbPoll \/ TxbHeartbeat
    \/ RadioUnheard
    \/ Tick(BusTicks, BusTickMs)
    \/ BusFrame(LightingFrames, BusFrames)
    \/ BusFrame(OtherFrames, BusFrames)

SpecBus == InitBus /\ [][NextBus]_vars

---------------------------------------------------------------------------
(* The CAN listener alone, over its frame timeout *)

\* the clock step of these runs, the bound on their clock steps and on the
\* frames the bus delivers
LstTickMs == 350

LstTicks == 5

LstFrames == 3

\* power-on, or Running since long ago with the clock about to wrap around and
\* the last recognized frame read one clock step ago
InitLst ==
    /\ InitEnv
    /\ probe = NoProbe
    /\ rxb = RxbOff
    /\ obs = NoObs
    /\ ctl = CtlOff
    /\ rx = RxOff
    /\ tx = TxOff
    /\ txb = TxbOff
    /\ \/ now = U32(0) /\ lst = LstBoot
       \/ /\ now = U32Sub(U32(0), U32(LstTickMs))
          /\ lst = [LstOff EXCEPT !.pc = "can", !.dbgMode = "DBG_RUNNING",
                                  !.haveSeenData = TRUE,
                                  !.leftStatus = 1, !.rightStatus = 2,
                                  !.lastFrameMs = U32Sub(now, U32(LstTickMs)),
                                  !.lastRefresh = U32Sub(now, U32(LstTickMs))]

SpecLst ==
    InitLst /\ [][\/ LstSetupBoot \/ LstSetupInit \/ LstPoll \/ LstTimeout
                  \/ Tick(LstTicks, LstTickMs)
                  \/ BusFrame(SomeLightingFrames, LstFrames)]_vars

---------------------------------------------------------------------------
(* The format-B transmitter alone, from power-on or long after it *)

\* the clock step of these runs and the bound on their clock steps
TxbTickMs == 40

TxbTicks == 7

\* long after power-on: sequence counter and clock about to wrap around, a
\* heartbeat sent 40 ms ago
TxbWarm ==
    [TxbOff EXCEPT !.pc = "can", !.g_haveCAN = TRUE,
                   !.g_seq = U32Of(65535, 65534),
                   !.g_pkt.seq = U32Of(65535, 65534),
                   !.g_lastSendMs = U32Of(65535, 65396)]

TxbFrames ==
    { Frame(StdId(CAN_ID_VCFRONT_LIGHTING), 8, LightingData(1, 0, 0)),
      Frame(StdId(CAN_ID_VCFRONT_LIGHTING), 8, LightingData(2, 3, 1)),
      Frame(StdId(CAN_ID_VCFRONT_LIGHTING), 8, LightingData(1, 1, 1)),
      Frame(StdId(1012), 8, LightingData(0, 1, 0)) }

InitB ==
    /\ ticks = 0
    /\ ran = {}
    /\ bus = NoBus
    /\ air = <<>>
    /\ probe = NoProbe
    /\ rxb = RxbOff
    /\ obs = NoObs
    /\ ctl = CtlOff
    /\ tx = TxOff
    /\ rx = RxOff
    /\ lst = LstOff
    /\ \/ now = U32(0) /\ txb = TxbBoot /\ sent = NoneSent
       \/ /\ now = U32Of(65535, 65436)
          /\ txb = TxbWarm
          /\ sent = [NoneSent EXCEPT !.at = TxbWarm.g_lastSendMs]

NextB ==
    \/ TxbSetup \/ TxbPoll \/ TxbHeartbeat
    \/ RadioUnheard
    \/ Tick(TxbTicks, TxbTickMs)
    \/ BusFrame(TxbFrames, MaxFrames)

SpecB == InitB /\ [][NextB]_vars

---------------------------------------------------------------------------
(* One transmitter, format A or format B, with nobody listening: the       *)
(* sequence counter from power-on and across its wrap                      *)

\* the clock step of these runs and the bound on their clock steps
SeqTickMs == 80

SeqTicks == 3

InitSeq ==
    /\ InitEnv
    /\ probe = NoProbe
    /\ rxb = RxbOff
    /\ obs = NoObs
    /\ ctl = CtlOff
    /\ rx = RxOff
    /\ lst = LstOff
    /\ \/ now = U32(0) /\ tx = TxBoot /\ txb = TxbOff
       \/ \E w \in WarmStarts : now = w.now /\ tx = TxWarm(w) /\ txb = TxbOff
       \/ now = U32(0) /\ tx = TxOff /\ txb = TxbBoot
       \/ now = U32Of(65535, 65436) /\ tx = TxOff /\ txb = TxbWarm

SpecSeq ==
    InitSeq /\ [][\/ TxSetup \/ TxPoll \/ TxHeartbeat
                  \/ TxbSetup \/ TxbPoll \/ TxbHeartbeat
                  \/ RadioUnheard
                  \/ Tick(SeqTicks, SeqTickMs)
                  \/ BusFrame(TxbFrames, BusFrames)]_vars

---------------------------------------------------------------------------
(* The bit-field extractor on its own *)

\* payloads: each single bit set, all bits set, and 01 23 45 67 89 AB CD EF
ProbePayloads ==
    { [i \in 1 .. 8 |-> IF i = (k \div 8) + 1 THEN Pow2(7 - (k % 8)) ELSE 0] :
        k \in 0 .. 63 }
      \cup { [i \in 1 .. 8 |-> 255], <<1, 35, 69, 103, 137, 171, 205, 239>> }

InitExtract ==
    /\ InitEnv
    /\ now = U32(0)
    /\ tx = TxOff
    /\ rx = RxOff
    /\ lst = LstOff
    /\ txb = TxbOff
    /\ rxb = RxbOff
    /\ obs = NoObs
    /\ ctl = CtlOff
    /\ \E d \in ProbePayloads, s \in 0 .. 63, n \in 1 .. 64 :
         /\ s + n <= 64
         /\ probe = [data |-> d, startBit |-> s, len |-> n, out |-> <<>>]

\* the call extract_moto_be(data, startBit, len)
Extract ==
    /\ probe.out = <<>>
    /\ probe' = [probe EXCEPT
                   !.out = extract_moto_be(probe.data, probe.startBit, probe.len)]
    /\ UNCHANGED <<now, ticks, ran, bus, air, sent, tx, rx, lst, txb, rxb, obs, ctl>>

SpecExtract == InitExtract /\ [][Extract]_vars

\* C4: for every payload and every (startBit, len) with 1 <= len <= 64 and
\* startBit + len <= 64, extract_moto_be returns bits [startBit, startBit+len)
\* of the big-endian reassembly of the payload, right-aligned, the full-width
\* case startBit = 0, len = 64 included.
C4_Extract ==
    probe.out # <<>> =>
        probe.out = FieldBits(probe.data, probe.startBit, probe.len)

\* the full-width field of the all-ones payload has been extracted
C4_Witness ==
    /\ probe.startBit = 0
    /\ probe.len = 64
    /\ probe.data = [i \in 1 .. 8 |-> 255]
    /\ probe.out = U64Max

---------------------------------------------------------------------------
(* Frame decoding and filtering: claims *)

\* a device reads the frame in the receive buffer
ReadsFrame == bus.f # NoFrame /\ bus'.f = NoFrame

\* the frame in the receive buffer has id 0x3F5 and length 8
IsLighting(f) == f.id = U32(CAN_ID_VCFRONT_LIGHTING) /\ f.len = 8

\* C5: for a frame with id 0x3F5 and length 8 the decoded leftStatus is bits
\* [50,52) and the decoded rightStatus is bits [52,54) of the payload's
\* big-endian reassembly (0 = OFF, 1 = ON, 2 = FAULT, 3 = SIGNAL-NOT-AVAILABLE),
\* each whatever the other is, in the format-A transmitter and in the listener
\* alike; so bits 01 and 00 give leftStatus = ON, rightStatus = OFF.
C5_Decoded ==
    [][(ReadsFrame /\ IsLighting(bus.f)) =>
         /\ tx.pc = "can" =>
              /\ tx'.leftStatus = FieldValue(bus.f.data, 50, 2)
              /\ tx'.rightStatus = FieldValue(bus.f.data, 52, 2)
         /\ lst.pc = "can" =>
              /\ lst'.leftStatus = FieldValue(bus.f.data, 50, 2)
              /\ lst'.rightStatus = FieldValue(bus.f.data, 52, 2)]_vars

\* the format-A transmitter has decoded leftStatus = ON, rightStatus = OFF from
\* a frame with bits [50,52) = 01, [52,54) = 00 and every other bit 1
C5_Witness ==
    /\ tx.haveSeenData
    /\ tx.leftStatus = 1 /\ tx.rightStatus = 0
    /\ bus.read = LightingData(1, 0, 1)
    /\ FieldValue(bus.read, 50, 2) = 1 /\ FieldValue(bus.read, 52, 2) = 0

\* C6: a frame whose id is not 0x3F5 or whose length is not 8 is discarded with
\* no effect, in the format-A transmitter, the listener and the format-B
\* transmitter: statuses or state bits, data-seen flag, last-frame time, mode
\* and sequence counter are unchanged, and nothing is sent.
C6_Discarded ==
    [][(ReadsFrame /\ ~IsLighting(bus.f)) =>
         /\ air' = air /\ sent' = sent
         /\ tx' = [tx EXCEPT !.pc = tx'.pc]
         /\ lst' = [lst EXCEPT !.pc = lst'.pc]
         /\ txb' = [txb EXCEPT !.pc = txb'.pc]]_vars

---------------------------------------------------------------------------
(* Format-B transmitter: claims *)

\* the state-bitmask byte for the payload d of a recognized frame: left_on and
\* right_on are set iff the status code is ON (1), every other bit is 0
BitsByteOf(d) ==
    IF d = <<>> THEN 0
    ELSE (IF FieldValue(d, 50, 2) = 1 THEN 1 ELSE 0)
           + (IF FieldValue(d, 52, 2) = 1 THEN 2 ELSE 0)

\* the heartbeat check of loop() runs
TxbChecksHeartbeat == txb.pc = "hb" /\ txb'.pc = "can"

\* C8: the heartbeat check sends a packet whenever at least HEARTBEAT_MS
\* (120 ms) have elapsed since the last send of either kind, with or without
\* CAN and frames; it sends nothing earlier than that, so an edge-triggered
\* send restarts the timer; the packet carries the most recently decoded bits.
C8_Heartbeat ==
    [][TxbChecksHeartbeat =>
         IF U32GeC(U32Sub(now, sent.at), TXB_HEARTBEAT_MS)
         THEN /\ sent'.n = sent.n + 1
              /\ sent'.at = now
              /\ Len(sent'.bytes) = 5
              /\ sent'.bytes[5] = BitsByteOf(bus.read)
              /\ air' = Append(air, [bytes |-> sent'.bytes, tag |-> "intact"])
         ELSE sent' = sent /\ air' = air]_vars

\* a heartbeat has been sent 120 ms after an edge-triggered send, carrying the
\* bits of that send (left_on)
C8_Witness ==
    /\ sent.n = 2
    /\ now = U32(160)
    /\ sent.at = now
    /\ bus.read = LightingData(1, 0, 0)
    /\ sent.bytes[5] = 1
    /\ txb.pc = "can"

\* handle_can_once() reads a frame it recognizes
TxbReadsRecognized ==
    /\ txb.pc = "can" /\ txb'.pc = "hb"
    /\ txb.g_haveCAN
    /\ bus.f # NoFrame
    /\ TxbRecognized(bus.f)

\* C9: when a recognized frame decodes to bits that differ from those of the
\* last sent packet, handle_can_once sends a packet with the new bits in that
\* same call; when it decodes to the same bits, handle_can_once sends nothing.
C9_EdgeSend ==
    [][(TxbReadsRecognized /\ sent.n > 0) =>
         IF BitsByteOf(bus.f.data) # sent.bytes[5]
         THEN /\ sent'.n = sent.n + 1
              /\ sent'.at = now
              /\ sent'.bytes[5] = BitsByteOf(bus.f.data)
              /\ air' = Append(air, [bytes |-> sent'.bytes, tag |-> "intact"])
         ELSE sent' = sent /\ air' = air]_vars

\* after a heartbeat with no bits set, a frame with left and right ON has been
\* sent at once, and a later frame with the same bits has sent nothing
C9_Witness ==
    /\ sent.n = 2
    /\ sent.bytes[5] = 3
    /\ bus.n = 2
    /\ bus.f = NoFrame
    /\ bus.read = LightingData(1, 1, 1)
    /\ txb.pc = "hb"
    /\ sent.at # now

---------------------------------------------------------------------------
(* The format-B receiver with its radio and its web clients *)

\* a TxPacket with sequence number n and state-bits byte v
PacketB(n, v) == TxPacketImage([seq |-> U32(n), bits |-> StateBitsOf(v)])

\* long after power-on, shortly before the clock wraps around: no payload was
\* ever heard, the last frame was shown one clock step ago
RxbWarm(w, step) ==
    [RxbOff EXCEPT !.pc = "web", !.registered = TRUE,
                   !.g_lenLeft = 4, !.g_lenRight = 3,
                   !.g_tailLeft = 2, !.g_tailRight = 5,
                   !.lastFrameMs = U32Sub(w, U32(step)),
                   !.stripL = Strip(4, Pixel(AMBIENT_DEFAULT)),
                   !.stripR = Strip(3, Pixel(AMBIENT_DEFAULT))]

InitRxb(step) ==
    /\ ticks = 0
    /\ ran = {}
    /\ bus = NoBus
    /\ air = <<>>
    /\ sent = NoneSent
    /\ probe = NoProbe
    /\ tx = TxOff
    /\ rx = RxOff
    /\ lst = LstOff
    /\ txb = TxbOff
    /\ obs = NoObs
    /\ ctl = CtlOff
    /\ \/ now = U32(0) /\ rxb = [RxbOff EXCEPT !.pc = "setup"]
       \/ /\ now = U32Sub(U32(0), U32(2 * step))
          /\ rxb = RxbWarm(now, step)

\* the receiver and its radio, without web clients
NextRxbRadio(P, maxPackets, maxTicks, step) ==
    \/ RxbSetupAP \/ RxbSetupStart
    \/ RxbOnRecv \/ RxbOnRecvStamp \/ RxbUnheard
    \/ RxbNoClient \/ RxbFrame
    \/ RadioDeliver(P, maxPackets)
    \/ Tick(maxTicks, step)

\* Link supervision: long clock steps, a client that asks for /status
LinkTickMs == 500

LinkTicks == 4

LinkPackets == 2

LinkRequests == 2

\* payloads: left_on + charging; nothing set; one that is too short, one that
\* is too long
SpecRxbLink ==
    InitRxb(LinkTickMs)
      /\ [][\/ NextRxbRadio({ PacketB(1, 9), PacketB(2, 0), <<1, 0, 0, 0>>,
                              <<3, 0, 0, 0, 54, 0>> },
                            LinkPackets, LinkTicks, LinkTickMs)
            \/ RxbHandleStatus(LinkRequests)]_vars

\* Turn signals: short clock steps, payloads that switch the turn bits
TurnTickMs == 100

TurnTicks == 4

TurnPackets == 3

SpecRxbTurn ==
    InitRxb(TurnTickMs)
      /\ [][NextRxbRadio({ PacketB(1, 1), PacketB(2, 2), PacketB(3, 0) },
                         TurnPackets, TurnTicks, TurnTickMs)]_vars

\* Web clients: every handler, few payloads
WebTickMs == 100

WebTicks == 1

WebPackets == 1

WebRequests == 2

\* payloads: left_on + charging; right_on + ap_on + track_on + plugged; one
\* that is too long.  Requests: /status; test mode on with left_on + charging,
\* or off; lengths and tails beyond their ranges; presets 0 and 7; the ambient
\* colour white
SpecRxbWeb ==
    InitRxb(WebTickMs)
      /\ [][\/ NextRxbRadio({ PacketB(1, 9), PacketB(4, 54),
                              <<165, 1, 1, 0, 1, 1, 0, 0, 0, 0, 0, 164>> },
                            WebPackets, WebTicks, WebTickMs)
            \/ RxbHandleStatus(WebRequests)
            \/ RxbHandleTest(WebRequests,
                             { [tm |-> TRUE, bits |-> 9], [tm |-> FALSE, bits |-> 1] })
            \/ RxbHandleLengths(WebRequests,
                                { [ll |-> 0, lr |-> 5, tl |-> 300, tr |-> 0] })
            \/ RxbHandleStartPins(WebRequests, { 0, 7 })
            \/ RxbHandleSet(WebRequests, { RGB(255, 255, 255) })]_vars

\* The frame period and the presets: clock steps shorter than every frame
\* period, a client that selects presets, one payload (left_on + charging).
\* At power-on the field g_respPreset holds the preference "resp" that
\* setupAPAndWeb() reads before applyResponsiveness(g_respPreset): a preset, or
\* a value no preset has.
FrameTickMs == 4

FrameTicks == 5

FrameRequests == 2

InitRxbPreset(step) ==
    /\ ticks = 0
    /\ ran = {}
    /\ bus = NoBus
    /\ air = <<>>
    /\ sent = NoneSent
    /\ probe = NoProbe
    /\ tx = TxOff
    /\ rx = RxOff
    /\ lst = LstOff
    /\ txb = TxbOff
    /\ obs = NoObs
    /\ ctl = CtlOff
    /\ \/ /\ now = U32(0)
          /\ \E resp \in { 0, 1, 2, 3, 255 } :
               rxb = [RxbOff EXCEPT !.pc = "setup", !.timing.g_respPreset = resp]
       \/ /\ now = U32Sub(U32(0), U32(2 * step))
          /\ rxb = RxbWarm(now, step)

SpecRxbFrame ==
    InitRxbPreset(FrameTickMs)
      /\ [][\/ NextRxbRadio({ PacketB(1, 9) }, 1, FrameTicks, FrameTickMs)
            \/ RxbHandleStartPins(FrameRequests, { 0, 1, 2, 7 })]_vars

\* The turn hold and the presets: clock steps longer than the transmitter's
\* heartbeat period, so that a step without a payload is a heartbeat lost.
\* Payloads: left_on; left_on again (a heartbeat); nothing set
HoldTickMs == 125

HoldTicks == 3

HoldPackets == 2

SpecRxbHold ==
    InitRxbPreset(HoldTickMs)
      /\ [][\/ NextRxbRadio({ PacketB(1, 1), PacketB(2, 1), PacketB(3, 0) },
                            HoldPackets, HoldTicks, HoldTickMs)
            \/ RxbHandleStartPins(1, { 0, 1, 2 })]_vars

\* The effect switches: a client that switches effects and the test mode.
\* Payloads: left_on + charging; right_on + ap_on + track_on + plugged.
\* Requests: effects with alerts off, or with turn and ap off; test mode on
\* with left_on + charging, or off
SpecRxbEffects ==
    InitRxb(WebTickMs)
      /\ [][\/ NextRxbRadio({ PacketB(1, 9), PacketB(4, 54) },
                            WebPackets, WebTicks, WebTickMs)
            \/ RxbHandleEffects(WebRequests,
                                { [AllEffects EXCEPT !.alerts = FALSE],
                                  [AllEffects EXCEPT !.turn = FALSE, !.ap = FALSE] })
            \/ RxbHandleTest(WebRequests,
                             { [tm |-> TRUE, bits |-> 9], [tm |-> FALSE, bits |-> 1] })]_vars

---------------------------------------------------------------------------
(* The priority arbiter on its own *)

\* every turn-active boolean, bits byte and combination of the six flags
InitArbiter ==
    /\ InitEnv
    /\ now = U32(0)
    /\ tx = TxOff
    /\ rx = RxOff
    /\ lst = LstOff
    /\ txb = TxbOff
    /\ rxb = RxbOff
    /\ obs = NoObs
    /\ ctl = CtlOff
    /\ \E a \in BOOLEAN, v \in 0 .. 63,
          e \in [alerts : BOOLEAN, turn : BOOLEAN, charging : BOOLEAN,
                 ap : BOOLEAN, track : BOOLEAN, plugged : BOOLEAN] :
         probe = [turnActive |-> a, bits |-> StateBitsOf(v), eff |-> e, out |-> <<>>]

\* the call pickPriority(turnActive, b) with g_eff = eff
Arbitrate ==
    /\ probe.out = <<>>
    /\ probe' = [probe EXCEPT
                   !.out = <<pickPriority(probe.turnActive, probe.bits, probe.eff)>>]
    /\ UNCHANGED <<now, ticks, ran, bus, air, sent, tx, rx, lst, txb, rxb, obs, ctl>>

SpecArbiter == InitArbiter /\ [][Arbitrate]_vars

---------------------------------------------------------------------------
(* The renderer of one side on its own *)

\* strip lengths and tails as handleLengths admits them (1..600 and 0..255);
\* frames at power-on, within a period, shortly before the clock wraps around
InitRender ==
    /\ InitEnv
    /\ now = U32(0)
    /\ tx = TxOff
    /\ rx = RxOff
    /\ lst = LstOff
    /\ txb = TxbOff
    /\ rxb = RxbOff
    /\ obs = NoObs
    /\ ctl = CtlOff
    /\ \E n \in { 1, 2, 3, 6, 255, 256, 600 },
          tail \in { 0, 1, 2, 3, 5, 6, 254, 255 },
          t \in { U32(0), U32(450), U32Of(65535, 65036) },
          pr \in {P_NONE, P_TURN, P_CHARGING, P_AUTOPILOT, P_TRACK, P_PLUGGED},
          rp \in 0 .. 2 :
         probe = [n |-> n, tail |-> tail, pr |-> pr, t |-> t,
                  timing |-> applyResponsiveness(rp), out |-> <<>>]

\* the call applySidePulse(s, pr, now, tail) on a strip of n pixels fresh from
\* updateLength
RenderSide ==
    /\ probe.out = <<>>
    /\ probe' = [probe EXCEPT
                   !.out = <<applySidePulse(updateLength(Strip(0, Pixel(RGB(0, 0, 0))), probe.n),
                                            probe.pr, probe.t, probe.tail,
                                            AMBIENT_DEFAULT, probe.timing)>>]
    /\ UNCHANGED <<now, ticks, ran, bus, air, sent, tx, rx, lst, txb, rxb, obs, ctl>>

SpecRender == InitRender /\ [][RenderSide]_vars

---------------------------------------------------------------------------
(* Either receiver beside a radio that delivers valid payloads in any order *)

ReplayTickMs == 100

ReplayTicks == 2

ReplayPackets == 2

\* a valid payload from the set P arrives, whatever arrived before it: the
\* radio repeats payloads and keeps no order
RadioReplay(P) ==
    /\ air = <<>>
    /\ sent.n < ReplayPackets
    /\ \E b \in P :
         /\ air' = <<[bytes |-> b, tag |-> "intact"]>>
         /\ sent' = [sent EXCEPT !.n = sent.n + 1, !.at = now, !.bytes = b]
    /\ UNCHANGED <<now, ticks, ran, bus, tx, rx, lst, txb, probe, rxb, obs, ctl>>

\* the format-A receiver, or the format-B receiver, running for a long time
InitReplay ==
    /\ InitEnv
    /\ probe = NoProbe
    /\ obs = NoObs
    /\ ctl = CtlOff
    /\ tx = TxOff
    /\ lst = LstOff
    /\ txb = TxbOff
    /\ now = WarmWrap.now
    /\ \/ rx = RxWarm /\ rxb = RxbOff
       \/ rx = RxOff /\ rxb = RxbWarm(now, ReplayTickMs)

\* format A: seq 7 with left ON, seq 5 with left FAULT, both with data seen;
\* format B: seq 7 with left_on, seq 5 with right_on
SpecReplay ==
    InitReplay
      /\ [][\/ RxOnRecv \/ RxLoop
            \/ RxbOnRecv \/ RxbOnRecvStamp \/ RxbNoClient \/ RxbFrame
            \/ /\ rx.pc = "loop"
               /\ RadioReplay({ PayloadImage(TxPayload(
                                  [TxOff EXCEPT !.seq = c.seq - 1, !.leftStatus = c.l,
                                                !.haveSeenData = TRUE], U32(0))) :
                                c \in { [seq |-> 7, l |-> 1], [seq |-> 5, l |-> 2] } })
            \/ /\ rxb.pc # "off"
               /\ RadioReplay({ PacketB(7, 1), PacketB(5, 2) })
            \/ Tick(ReplayTicks, ReplayTickMs)]_vars

---------------------------------------------------------------------------
(* The LED controller from power-on, through its startup *)

CtlTickMs == 250

CtlTicks == 14

\* power-on with the settings loadConfigFromFS() finds: a startup animation
\* (9 is past the end of ANIMS[]), a duration in seconds, a fade in ms
InitCtl ==
    /\ InitEnv
    /\ now = U32(0)
    /\ tx = TxOff
    /\ rx = RxOff
    /\ lst = LstOff
    /\ txb = TxbOff
    /\ probe = NoProbe
    /\ rxb = RxbOff
    /\ obs = NoObs
    /\ \E a \in { 0, 1, 9 }, d \in { 0, 1, 2 }, f \in { 0, 1, 1000 } :
         ctl = [CtlOff EXCEPT !.pc = "setup",
                              !.settings = [startupAnimationId |-> a,
                                            startupDurationSec |-> d,
                                            startupFadeMs |-> f]]

\* setup() returns, loop() is called again and again, and time passes
SpecCtl ==
    /\ InitCtl
    /\ [][CtlSetup \/ CtlDeadline \/ CtlFade \/ Tick(CtlTicks, CtlTickMs)]_vars
    /\ WF_vars(CtlSetup) /\ WF_vars(CtlDeadline) /\ WF_vars(CtlFade)
    /\ WF_vars(Tick(CtlTicks, CtlTickMs))

---------------------------------------------------------------------------
(* Format-B receiver, liveness: claims *)

\* a client is served /status
StatusServed ==
    /\ rxb.pc = "web"
    /\ obs'.asked = obs.asked + 1
    /\ obs'.status.at = now

\* some accepted packet was received no longer than the dead window ago
AliveNow == obs.n > 0 /\ ~U32GtC(U32Sub(now, obs.at), TX_ALIVE_WINDOW_MS)

\* C11: in the /status snapshot txAlive is true iff some accepted packet was
\* received within the last TX_ALIVE_WINDOW_MS (1500 ms), whatever value the
\* 32-bit clock had at the receipt; false before any packet, false once more
\* than the window has elapsed with no new packet.
C11_Alive ==
    [][StatusServed => (obs'.status.txAlive <=> AliveNow)]_vars

\* loop() renders a frame
RendersFrame == RxbFrame /\ obs'.frames = obs.frames + 1

\* every pixel of the strip s shows the colour c, unscaled
AmbientOnly(s, c) == s.px = [i \in 1 .. Len(s.px) |-> Pixel(c)]

\* the state bits of the latest accepted packet: the one the callback has just
\* copied, or else the last one it has finished with
LatestBits ==
    StateBitsOf((IF rxb.cb = "stamp" THEN Head(air).bytes ELSE obs.bytes)[5])

\* C13: once no valid packet has been accepted within the dead window, the
\* state used for rendering is the safe default (all alert categories false)
\* and both strips render ambient-only, until the next valid packet.
C13_LinkLossResets ==
    [][(RendersFrame /\ rxb.cb = "idle" /\ ~rxb.g_testMode /\ ~AliveNow) =>
         /\ AmbientOnly(rxb'.stripL, rxb.ambientColor)
         /\ AmbientOnly(rxb'.stripR, rxb.ambientColor)]_vars

\* C14: liveness never gates state application.  Every frame rendered outside
\* test mode after a packet was accepted shows, on each side, the category
\* picked from the bits of the latest accepted packet, however long ago it was
\* accepted; and g_hasPkt, once true, stays true.
C14_FreeRuns ==
    [][/\ rxb.g_hasPkt => rxb'.g_hasPkt
       /\ (RendersFrame /\ rxb.g_hasPkt /\ ~rxb.g_testMode) =>
            LET hold == rxb.timing.g_turnLossHoldMs
                lt == updateTurnSide(rxb.g_leftTurn, LatestBits.left_on, now, hold)
                rt == updateTurnSide(rxb.g_rightTurn, LatestBits.right_on, now, hold)
            IN  /\ rxb'.stripL =
                     applySidePulse(rxb.stripL,
                                    pickPriority(lt.active, LatestBits, rxb.g_eff),
                                    now, rxb.g_tailLeft, rxb.ambientColor, rxb.timing)
                /\ rxb'.stripR =
                     applySidePulse(rxb.stripR,
                                    pickPriority(rt.active, LatestBits, rxb.g_eff),
                                    now, rxb.g_tailRight, rxb.ambientColor, rxb.timing)]_vars

\* a frame rendered more than 1500 ms after the only accepted packet (left_on
\* and charging) has the turn tail on the left and the charging tail on the
\* right
C14_Witness ==
    /\ rxb.pc = "web" /\ rxb.cb = "idle"
    /\ obs.frames > 0 /\ rxb.lastFrameMs = now
    /\ obs.n = 1
    /\ U32GtC(U32Sub(now, obs.at), TX_ALIVE_WINDOW_MS)
    /\ rxb.stripL.px[Len(rxb.stripL.px)].color = TURN_COLOR
    /\ rxb.stripR.px[Len(rxb.stripR.px)].color = CHARGING_COLOR
    /\ rxb.stripL.px[1] = Pixel(rxb.ambientColor)

---------------------------------------------------------------------------
(* Format-B receiver, debounce, arbiter and renderer: claims *)

\* the debouncer of one side after a render tick with the raw sample rawOn:
\* before is its state before the tick, after its state after it
Debounced(before, after, rawOn) ==
    LET elapsed == U32Sub(now, before.lastSeenMs)
        hold == rxb.timing.g_turnLossHoldMs
    IN  /\ rawOn = 1 => after = [active |-> TRUE, lastSeenMs |-> now]
        /\ (rawOn = 0 /\ ~before.active) => after = before
        /\ (rawOn = 0 /\ before.active /\ ~U32GtC(elapsed, hold)) => after = before
        /\ (rawOn = 0 /\ before.active /\ U32GtC(elapsed, hold)) =>
              after = [before EXCEPT !.active = FALSE]

\* C16: on every render tick, per side: a true sample sets active and
\* refreshes the timestamp of the last true sample; a false sample no later
\* than the hold threshold after the last true one leaves active true, so
\* active stays true throughout a shorter false run between true samples; a
\* false sample later than the hold threshold clears active; each side's
\* state after the tick depends on that side's state and sample only.
C16_Debounce ==
    [][(RendersFrame /\ rxb.g_hasPkt /\ ~rxb.g_testMode) =>
         /\ Debounced(rxb.g_leftTurn, rxb'.g_leftTurn, LatestBits.left_on)
         /\ Debounced(rxb.g_rightTurn, rxb'.g_rightTurn, LatestBits.right_on)]_vars

\* after a render tick with both samples false: the left side, last true
\* exactly the hold threshold ago, is still active; the right side, last true
\* 100 ms earlier, has been cleared
C16_Witness ==
    /\ rxb.pc = "web" /\ rxb.cb = "idle"
    /\ obs.frames > 0 /\ rxb.lastFrameMs = now
    /\ obs.n = 3
    /\ LatestBits.left_on = 0 /\ LatestBits.right_on = 0
    /\ rxb.g_leftTurn.active
    /\ U32Sub(now, rxb.g_leftTurn.lastSeenMs) = U32(rxb.timing.g_turnLossHoldMs)
    /\ ~rxb.g_rightTurn.active
    /\ U32Sub(now, rxb.g_rightTurn.lastSeenMs) = U32(rxb.timing.g_turnLossHoldMs + 100)
    /\ rxb.stripL.px[Len(rxb.stripL.px)].color = TURN_COLOR
    /\ AmbientOnly(rxb.stripR, rxb.ambientColor)

\* the categories in the order Turn > Charging > Autopilot > Track > Plugged,
\* each with its condition and its enable flag
CategoryOrder(turnActive, b, eff) ==
    << [cat |-> P_TURN,      on |-> turnActive,     en |-> eff.turn],
       [cat |-> P_CHARGING,  on |-> b.charging = 1, en |-> eff.charging],
       [cat |-> P_AUTOPILOT, on |-> b.ap_on = 1,    en |-> eff.ap],
       [cat |-> P_TRACK,     on |-> b.track_on = 1, en |-> eff.track],
       [cat |-> P_PLUGGED,   on |-> b.plugged = 1,  en |-> eff.plugged] >>

\* the first category of the order whose condition is true and which is
\* enabled (by its own flag and the master alerts flag), or NONE
FirstInOrder(turnActive, b, eff) ==
    LET order == CategoryOrder(turnActive, b, eff)
        hits == { i \in 1 .. Len(order) : eff.alerts /\ order[i].on /\ order[i].en }
    IN  IF hits = {} THEN P_NONE
        ELSE order[CHOOSE i \in hits : \A j \in hits : i <= j].cat

\* C17: for every combination of the six enable flags, the turn-active
\* boolean and the state bits, pickPriority returns exactly one of NONE, TURN,
\* CHARGING, AUTOPILOT, TRACK, PLUGGED: the first category in the order
\* Turn > Charging > Autopilot > Track > Plugged whose condition is true and
\* which is enabled, or NONE when there is none.
C17_Arbiter ==
    probe.out # <<>> =>
        /\ probe.out[1] \in {P_NONE, P_TURN, P_CHARGING, P_AUTOPILOT, P_TRACK, P_PLUGGED}
        /\ probe.out[1] = FirstInOrder(probe.turnActive, probe.bits, probe.eff)

\* turn-active with alerts and turn enabled and charging also true (and
\* enabled) yields TURN
C17_Witness ==
    /\ probe.out = <<P_TURN>>
    /\ probe.turnActive /\ probe.bits.charging = 1
    /\ probe.eff.alerts /\ probe.eff.turn /\ probe.eff.charging

\* the bits loop() renders from
SourceBits == IF rxb.g_testMode THEN rxb.g_testBits ELSE rxb.g_lastPkt.bits

\* C18: while the master alerts flag is off, pickPriority returns NONE for
\* both sides and every rendered frame of both strips is entirely the ambient
\* colour, whatever the category flags, the packet or test bits and the
\* debouncers say.
C18_AlertsOff ==
    [][(RendersFrame /\ ~rxb.g_eff.alerts) =>
         /\ pickPriority(rxb'.g_leftTurn.active, SourceBits, rxb.g_eff) = P_NONE
         /\ pickPriority(rxb'.g_rightTurn.active, SourceBits, rxb.g_eff) = P_NONE
         /\ AmbientOnly(rxb'.stripL, rxb.ambientColor)
         /\ AmbientOnly(rxb'.stripR, rxb.ambientColor)]_vars

\* alerts off with every category flag on, a packet with left_on and charging
\* accepted, the left debouncer active: both strips are entirely ambient
C18_Witness ==
    /\ rxb.pc = "web"
    /\ ~rxb.g_eff.alerts /\ rxb.g_eff.turn /\ rxb.g_eff.charging
    /\ rxb.g_hasPkt /\ ~rxb.g_testMode
    /\ rxb.g_lastPkt.bits.left_on = 1 /\ rxb.g_lastPkt.bits.charging = 1
    /\ rxb.g_leftTurn.active
    /\ rxb.g_tailLeft > 0 /\ rxb.g_tailRight > 0
    /\ AmbientOnly(rxb.stripL, rxb.ambientColor)
    /\ AmbientOnly(rxb.stripR, rxb.ambientColor)

\* C20: while no packet has been received and test mode is off, every frame
\* loop() renders is ambient-only on both strips; loop() waits for nothing: it
\* renders whenever the frame period has elapsed since the last frame, returns
\* at once otherwise, and goes back to serving the web clients either way.
C20_NoPacket ==
    [][(RxbFrame /\ ~rxb.g_hasPkt /\ ~rxb.g_testMode) =>
         /\ rxb'.pc = "web"
         /\ IF U32GeC(U32Sub(now, rxb.lastFrameMs), rxb.timing.g_frameMs)
            THEN /\ RendersFrame
                 /\ rxb'.lastFrameMs = now
                 /\ AmbientOnly(rxb'.stripL, rxb.ambientColor)
                 /\ AmbientOnly(rxb'.stripR, rxb.ambientColor)
            ELSE rxb' = [rxb EXCEPT !.pc = "web"]]_vars

\* no packet so far, test mode off, the ambient colour set to white by a
\* client after the first frame: both strips are entirely white
C20_Witness ==
    /\ rxb.pc = "web"
    /\ ~rxb.g_hasPkt /\ ~rxb.g_testMode /\ obs.n = 0
    /\ obs.frames >= 2 /\ rxb.lastFrameMs = now
    /\ rxb.ambientColor = RGB(255, 255, 255)
    /\ AmbientOnly(rxb.stripL, rxb.ambientColor)
    /\ AmbientOnly(rxb.stripR, rxb.ambientColor)

\* the colour assigned to a category
CategoryColour(pr) ==
    CASE pr = P_TURN      -> RGB(255, 128, 0)
      [] pr = P_CHARGING  -> RGB(0, 255, 0)
      [] pr = P_AUTOPILOT -> RGB(0, 64, 255)
      [] pr = P_TRACK     -> RGB(255, 0, 64)
      [] pr = P_PLUGGED   -> RGB(32, 32, 32)

\* the pulse period of a category: the turn period for TURN, the status
\* period otherwise
CategoryPeriod(pr, timing) ==
    IF pr = P_TURN THEN timing.g_turnPulseMs ELSE timing.g_statusPulseMs

\* C19: the frame of a strip of n pixels with tail t (n in 1..600, t in
\* 0..255): for NONE every pixel is the ambient colour; for a category the
\* pixels [0, n - min(t, n)) are the ambient colour and the last min(t, n)
\* pixels carry the category's colour scaled by the pulse factor of the frame
\* time and the category's period; no index outside [0, n) is written.
C19_Layout ==
    probe.out # <<>> =>
        LET s == probe.out[1]
            n == probe.n
            k == IF probe.tail < n THEN probe.tail ELSE n
            tailPx == PulsePixel(CategoryColour(probe.pr), probe.t,
                                 CategoryPeriod(probe.pr, probe.timing))
        IN  /\ ~s.oob
            /\ Len(s.px) = n
            /\ probe.pr = P_NONE => AmbientOnly(s, AMBIENT_DEFAULT)
            /\ probe.pr # P_NONE =>
                 \A i \in 0 .. (n - 1) :
                     s.px[i + 1] = IF i < n - k THEN Pixel(AMBIENT_DEFAULT) ELSE tailPx

\* a strip of 3 pixels with tail 5 and category TURN: all three pixels carry
\* the turn colour, none outside the strip was written
C19_Witness ==
    /\ probe.out # <<>>
    /\ probe.n = 3 /\ probe.tail = 5 /\ probe.pr = P_TURN
    /\ \A i \in 1 .. 3 : probe.out[1].px[i].color = TURN_COLOR
    /\ ~probe.out[1].oob

---------------------------------------------------------------------------
(* Format-A receiver, link supervision: claims *)

\* an iteration of the receiver's loop() that is not held off by the link
\* blink, at a linked receiver
RxSupervises == RxLoop /\ rx.linkSeen /\ ~rx.linkBlinkActive

\* the time since the last accepted payload
RxQuiet == U32Sub(now, rx.lastPktMs)

\* C12 as stated: the dead window is 700 ms; after one missed heartbeat (300 ms
\* since the last accepted payload) the link is still alive, and once more than
\* 700 ms have elapsed the receiver treats the link as not alive.
C12_DeadWindow700 ==
    [][RxSupervises =>
         /\ ~U32GtC(RxQuiet, 300) => rx'.linkSeen
         /\ U32GtC(RxQuiet, 700) => ~rx'.linkSeen]_vars

\* C12 (amended): the receiver's dead window is LINK_TIMEOUT_MS = 1000 ms; up to
\* 1000 ms after the last accepted payload, and so after one missed heartbeat,
\* the link is alive; once more than 1000 ms have elapsed, the next iteration
\* of loop() that is not held off by the link blink treats it as not alive.
C12_DeadWindow ==
    [][RxSupervises =>
         /\ ~U32GtC(RxQuiet, 300) => rx'.linkSeen
         /\ ~U32GtC(RxQuiet, 1000) => rx'.linkSeen
         /\ U32GtC(RxQuiet, 1000) => ~rx'.linkSeen]_vars

\* the link is alive after a loop() that ran 1000 ms after the last accepted
\* payload
C12_Witness ==
    /\ rx.pc = "loop"
    /\ "rx" \in ran
    /\ rx.linkSeen /\ ~rx.linkBlinkActive
    /\ RxQuiet = U32(1000)

\* C15: when a linked receiver has accepted no payload for more than
\* LINK_TIMEOUT_MS and no link blink is in progress, the next loop() sets
\* leftStatus and rightStatus to OFF, clears haveSeenData and linkSeen and
\* enters Waiting-For-Link; the next valid payload sets linkSeen again and
\* applies its statuses and its flag.
C15_LinkLoss ==
    [][/\ (RxSupervises /\ U32GtC(RxQuiet, LINK_TIMEOUT_MS)) =>
            /\ rx'.leftStatus = 0 /\ rx'.rightStatus = 0
            /\ ~rx'.haveSeenData /\ ~rx'.linkSeen
            /\ rx'.mode_ = "DBG_WAITING_FOR_LINK"
       /\ (Hears("intact") /\ ~rx.linkSeen) =>
            /\ rx'.linkSeen
            /\ rx'.leftStatus = PayloadFrom(Head(air).bytes).leftStatus
            /\ rx'.rightStatus = PayloadFrom(Head(air).bytes).rightStatus
            /\ rx'.haveSeenData = (PayloadFrom(Head(air).bytes).flags % 2 = 1)]_vars

\* a receiver that showed LEFT = ON, RIGHT = FAULT (refreshed 100 ms after the
\* transmitter's restart) has lost the link 1100 ms after the last payload,
\* and the transmitter's next payload, sent 200 ms after its restart with
\* nothing decoded yet, has linked it again
C15_Witness ==
    /\ rx.linkSeen /\ ~rx.haveSeenData
    /\ rx.leftStatus = 0 /\ rx.rightStatus = 0
    /\ rx.mode_ = "DBG_WAITING_FOR_DATA"
    /\ rx.linkBlinkActive /\ rx.linkBlinkStep = 0
    /\ sent.n = 1
    /\ rx.lastPktMs = U32(200)
    /\ rx.lastShowMs = U32(100)

---------------------------------------------------------------------------
(* Format-B receiver, the shared packet cell: claims *)

\* the callback has accepted a packet: it has copied one, or has finished with one
Accepted == rxb.cb = "stamp" \/ obs.n > 0

\* the payload of the latest accepted packet
LatestBytes == IF rxb.cb = "stamp" THEN Head(air).bytes ELSE obs.bytes

\* the pair (pkt, has) is the initial one before any packet was accepted, and
\* afterwards the latest accepted packet, whole
WholeSnapshot(pkt, has) ==
    IF Accepted
    THEN has /\ pkt = RxPacketFrom(LatestBytes)
    ELSE ~has /\ pkt = RxbOff.g_lastPkt

\* C21: under every interleaving of on_data_recv with loop() and handleStatus,
\* each reader's snapshot of (g_lastPkt, g_hasPkt) is a value written whole by
\* one call of on_data_recv: never the seq of one packet with the bits of
\* another, never has = true without a whole packet.
C21_WholeSnapshot ==
    [][/\ StatusServed =>
            WholeSnapshot([seq |-> obs'.status.seq, bits |-> obs'.status.bits],
                          obs'.status.has)
       /\ (RendersFrame /\ ~rxb.g_testMode) =>
            WholeSnapshot(rxb.g_lastPkt, rxb.g_hasPkt)]_vars

\* /status was served between the copy of the second packet (seq 2, no bits)
\* and its time stamp, after the first packet (seq 1, left_on and charging)
C21_Witness ==
    /\ rxb.cb = "stamp" /\ obs.n = 1
    /\ obs.bytes = PacketB(1, 9)
    /\ Head(air).bytes = PacketB(2, 0)
    /\ obs.asked > 0 /\ obs.status.at = now
    /\ obs.status.has
    /\ obs.status.seq = U32(2)
    /\ obs.status.bits = StateBitsOf(0)

\* the time at which the latest accepted packet was received
LatestTime == IF rxb.cb = "stamp" THEN now ELSE obs.at

\* C22: the latest packet and its freshness marker are published as one unit:
\* a reader that observes packet k observes the receipt time recorded for
\* packet k, so the reported age and txAlive refer to the packet reported
\* alongside them (receipts at millis() = 0 apart, see C11).
C22_OneUnit ==
    [][(StatusServed /\ obs'.status.has /\ LatestTime # U32(0)) =>
         /\ obs'.status.age = U32Sub(now, LatestTime)
         /\ obs'.status.txAlive =
              ~U32GtC(U32Sub(now, LatestTime), TX_ALIVE_WINDOW_MS)]_vars

\* the format-B callback writes the holding cell, its time stamp and its own
\* position, and nothing else
RxbCopiesOnly ==
    \A f \in DOMAIN rxb :
        f \notin {"g_lastPkt", "g_hasPkt", "g_lastPktMs", "cb"} => rxb'[f] = rxb[f]

\* C23: in every receiver variant the packet-arrival callback only copies the
\* packet into the holding cell: it never changes the lifecycle mode in place
\* (format A: mode_), and writes nothing but the cell (format B).
C23_CopyOnly ==
    [][/\ RxOnRecv => rx'.mode_ = rx.mode_
       /\ (RxbOnRecv \/ RxbOnRecvStamp) => RxbCopiesOnly]_vars

---------------------------------------------------------------------------
(* Format-A receiver and CAN listener, lifecycle: claims *)

\* C24: when esp_now_init() fails the mode becomes Error and stays Error for
\* the rest of the run: no payload, timeout or loop() changes it, while loop()
\* keeps running and draws the error animation.
C24_ErrorStays ==
    [][/\ (RxSetupInit /\ ~rx'.registered) => rx'.mode_ = "DBG_ERROR"
       /\ rx.mode_ = "DBG_ERROR" =>
            /\ rx'.mode_ = "DBG_ERROR"
            /\ rx.pc = "loop" /\ rx'.pc = "loop"
            /\ RxDebugUI(rx) = "debugShowError"]_vars

\* the receiver is in Error 1400 ms after power-on, its loop() has run in this
\* clock step, and the transmitter has sent a payload with the data-seen flag
C24_Witness ==
    /\ rx.mode_ = "DBG_ERROR" /\ "rx" \in ran
    /\ now = U32(1400)
    /\ sent.n >= 2 /\ PayloadFrom(sent.bytes).flags % 2 = 1
    /\ air = <<>>

\* C25: in the CAN listener, once CAN0.begin() has failed and the mode is
\* ERROR, no iteration of loop() changes dbgMode, whatever the controller's
\* receive interface reports afterwards.
C25_ListenerErrorStays ==
    [][lst.dbgMode = "DBG_ERROR" => lst'.dbgMode = "DBG_ERROR"]_vars

\* C26: from Waiting-For-Link the first valid payload moves the receiver to
\* Waiting-For-Data, and Running is entered only from Waiting-For-Data, by an
\* accepted payload whose data-seen flag is set; no step leads from
\* Waiting-For-Link to Running.
C26_LifecycleOrder ==
    [][/\ (Hears("intact") /\ rx.mode_ = "DBG_WAITING_FOR_LINK") =>
            rx'.mode_ = "DBG_WAITING_FOR_DATA"
       /\ (rx.mode_ # "DBG_RUNNING" /\ rx'.mode_ = "DBG_RUNNING") =>
            /\ rx.mode_ = "DBG_WAITING_FOR_DATA"
            /\ Hears("intact")
            /\ PayloadFrom(Head(air).bytes).flags % 2 = 1]_vars

\* the listener polls a recognized frame
LstReadsRecognized == LstPoll /\ bus.f # NoFrame /\ LstRecognized(bus.f)

\* the time since the listener last read a recognized frame
LstQuiet == U32Sub(now, lst.lastFrameMs)

\* C27: the listener leaves Running for Waiting-For-Data exactly on a frame
\* timeout: while recognized frames are at most FRAME_TIMEOUT_MS (700 ms)
\* apart the mode stays Running; once more than 700 ms have passed without
\* one, the next loop() sets both statuses to OFF, clears haveSeenData and
\* enters Waiting-For-Data; the next recognized frame returns it to Running.
C27_FrameTimeout ==
    [][/\ (LstTimeout /\ lst.dbgMode = "DBG_RUNNING") =>
            IF U32GtC(LstQuiet, 700)
            THEN /\ lst'.leftStatus = 0 /\ lst'.rightStatus = 0
                 /\ ~lst'.haveSeenData
                 /\ lst'.dbgMode = "DBG_WAITING_FOR_DATA"
            ELSE /\ lst'.dbgMode = "DBG_RUNNING"
                 /\ lst'.leftStatus = lst.leftStatus
                 /\ lst'.rightStatus = lst.rightStatus
                 /\ lst'.haveSeenData
       /\ (lst.dbgMode = "DBG_RUNNING" /\ lst'.dbgMode # "DBG_RUNNING") =>
            LstTimeout /\ U32GtC(LstQuiet, 700)
       /\ (LstReadsRecognized /\ lst.dbgMode = "DBG_WAITING_FOR_DATA") =>
            lst'.dbgMode = "DBG_RUNNING"]_vars

\* the listener, powered on at 0 ms, was still Running (and refreshed) 700 ms
\* after the last recognized frame, timed out at 1050 ms, and the third frame,
\* read at 1750 ms, has returned it to Running
C27_Witness ==
    /\ lst.dbgMode = "DBG_RUNNING" /\ bus.n = 3 /\ bus.f = NoFrame
    /\ lst.dbgAnimMs = lst.lastFrameMs
    /\ lst.lastFrameMs = U32(1750)
    /\ lst.lastRefresh = U32(700)

---------------------------------------------------------------------------
(* Format-A pair, data timeout and link timeout: claims *)

\* C28: when the transmitter has seen data and no recognized frame has arrived
\* for more than FRAME_TIMEOUT_MS (700 ms), its next heartbeat check sets both
\* statuses to OFF, clears the data-seen flag and sends a payload with flags
\* bit 0 = 0; a receiver in Running that accepts a payload with flags bit 0 = 0
\* moves to Waiting-For-Data.
C28_DataTimeout ==
    [][/\ (/\ TxHeartbeatDue
           /\ tx.haveSeenData
           /\ U32GtC(U32Sub(now, tx.lastFrameMs), 700)) =>
            /\ tx'.leftStatus = 0 /\ tx'.rightStatus = 0
            /\ ~tx'.haveSeenData
            /\ sent'.n = sent.n + 1
            /\ PayloadFrom(sent'.bytes).flags % 2 = 0
            /\ PayloadFrom(sent'.bytes).leftStatus = 0
            /\ PayloadFrom(sent'.bytes).rightStatus = 0
       /\ (/\ Hears("intact")
           /\ rx.mode_ = "DBG_RUNNING"
           /\ PayloadFrom(Head(air).bytes).flags % 2 = 0) =>
            rx'.mode_ = "DBG_WAITING_FOR_DATA"]_vars

\* the transmitter read its last frame at 0 ms and timed out at its heartbeat
\* check at 800 ms; the receiver, linked since 0 ms, has accepted the payload
\* with flags bit 0 = 0 and is in Waiting-For-Data
C28_Witness ==
    /\ now = U32(800)
    /\ tx.lastFrameMs = U32(0) /\ ~tx.haveSeenData /\ tx.prevFlags = 0
    /\ tx.lastHeartbeatMs = now
    /\ sent.n >= 2 /\ sent.at = now /\ PayloadFrom(sent.bytes).flags = 0
    /\ air = <<>>
    /\ rx.lastPktMs = now /\ rx.linkBlinkStep >= 4
    /\ rx.mode_ = "DBG_WAITING_FOR_DATA" /\ ~rx.haveSeenData

\* the link blink is running and waits for the time of its next step, at most
\* a blink phase ahead
BlinkWaits ==
    /\ rx.linkBlinkActive
    /\ ~U32Ge(now, rx.linkBlinkNext)
    /\ ~U32GtC(U32Sub(rx.linkBlinkNext, now), LINK_BLINK_ON_MS)
    /\ ~U32GtC(U32Sub(rx.linkBlinkNext, now), LINK_BLINK_OFF_MS)

---------------------------------------------------------------------------
(* Sequence counters: claims *)

\* a payload is handed to the radio
Sends == sent'.n = sent.n + 1

\* C30: each transmitter increments its sequence counter by exactly 1 for
\* every packet it sends (mod 2^16 in format A, mod 2^32 in format B), whether
\* the send is edge-triggered, forced or a heartbeat: the packet carries the
\* incremented counter, consecutive packets carry consecutive values, and the
\* counter changes with a send only.
C30_SeqMonotonic ==
    [][/\ (Sends /\ tx.pc # "off") =>
            /\ PayloadFrom(sent'.bytes).seq = (tx.seq + 1) % (2 ^ 16)
            /\ tx'.seq = PayloadFrom(sent'.bytes).seq
            /\ sent.n > 0 =>
                 PayloadFrom(sent'.bytes).seq
                   = (PayloadFrom(sent.bytes).seq + 1) % (2 ^ 16)
       /\ (Sends /\ txb.pc # "off") =>
            /\ RxPacketFrom(sent'.bytes).seq = U32Add(txb.g_seq, 1)
            /\ txb'.g_seq = RxPacketFrom(sent'.bytes).seq
            /\ sent.n > 0 =>
                 RxPacketFrom(sent'.bytes).seq
                   = U32Add(RxPacketFrom(sent.bytes).seq, 1)
       /\ (tx'.seq # tx.seq \/ txb'.g_seq # txb.g_seq) => Sends]_vars

\* the format-B transmitter's counter has wrapped: after 0xFFFFFFFE it has sent
\* 0xFFFFFFFF and 0, a changed frame among its sends
C30_Witness ==
    /\ txb.g_seq = U32(0) /\ sent.n = 2
    /\ RxPacketFrom(sent.bytes).seq = U32(0)
    /\ txb.g_lastSendMs = now /\ txb.pc = "can"
    /\ txb.g_pkt.bits # NoBits

---------------------------------------------------------------------------
(* Format-B receiver, test mode, acceptance and frame period: claims *)

\* the frame loop() renders from the bits b: debouncers and strips afterwards
FrameFrom(b) ==
    LET hold == rxb.timing.g_turnLossHoldMs
        lt == updateTurnSide(rxb.g_leftTurn, b.left_on, now, hold)
        rt == updateTurnSide(rxb.g_rightTurn, b.right_on, now, hold)
    IN  /\ rxb'.g_leftTurn = lt
        /\ rxb'.g_rightTurn = rt
        /\ rxb'.stripL =
             applySidePulse(rxb.stripL, pickPriority(lt.active, b, rxb.g_eff),
                            now, rxb.g_tailLeft, rxb.ambientColor, rxb.timing)
        /\ rxb'.stripR =
             applySidePulse(rxb.stripR, pickPriority(rt.active, b, rxb.g_eff),
                            now, rxb.g_tailRight, rxb.ambientColor, rxb.timing)

\* the receiver with nothing ever received
NothingReceived(r) ==
    [r EXCEPT !.g_lastPkt = RxbOff.g_lastPkt, !.g_hasPkt = FALSE,
              !.g_lastPktMs = U32(0)]

\* C31: while the test flag is set, every rendered frame feeds exactly the test
\* bits to the debouncers and the arbiter, and the received packets have no
\* effect on it (the frame is the one a receiver that never received anything
\* would render); while the flag is clear, the bits are those of the latest
\* accepted packet.
C31_TestOverride ==
    [][/\ (RendersFrame /\ rxb.g_testMode) =>
            /\ FrameFrom(rxb.g_testBits)
            /\ NothingReceived(rxb') =
                 [RxbRender(NothingReceived(rxb), now) EXCEPT !.pc = "web"]
       /\ (RendersFrame /\ ~rxb.g_testMode /\ Accepted) =>
            FrameFrom(LatestBits)]_vars

\* test mode with left_on and charging, while the packet accepted has right_on,
\* ap_on, plugged and track_on: the frame has the turn tail on the left and the
\* charging tail on the right
C31_Witness ==
    /\ rxb.pc = "web" /\ rxb.cb = "idle"
    /\ rxb.g_testMode /\ rxb.g_testBits = StateBitsOf(9)
    /\ rxb.g_eff = AllEffects
    /\ rxb.g_hasPkt /\ rxb.g_lastPkt.bits = StateBitsOf(54)
    /\ obs.frames > 0 /\ rxb.lastFrameMs = now
    /\ rxb.g_leftTurn.active /\ ~rxb.g_rightTurn.active
    /\ rxb.stripL.px[Len(rxb.stripL.px)].color = TURN_COLOR
    /\ rxb.stripR.px[Len(rxb.stripR.px)].color = CHARGING_COLOR

\* C32: the receiver accepts a radio payload iff its length is exactly 5
\* bytes: an accepted payload overwrites the latest packet and the has-packet
\* flag, and then the receipt time, whole; a payload of any other length
\* leaves all three unchanged.
C32_AcceptsLength5 ==
    [][/\ RxbOnRecv =>
            IF Len(Head(air).bytes) = 5
            THEN /\ rxb'.g_lastPkt =
                      [seq |-> U32Of(Head(air).bytes[3] + 256 * Head(air).bytes[4],
                                     Head(air).bytes[1] + 256 * Head(air).bytes[2]),
                       bits |-> StateBitsOf(Head(air).bytes[5])]
                 /\ rxb'.g_hasPkt
                 /\ rxb'.cb = "stamp"
            ELSE /\ rxb'.g_lastPkt = rxb.g_lastPkt
                 /\ rxb'.g_hasPkt = rxb.g_hasPkt
                 /\ rxb'.g_lastPktMs = rxb.g_lastPktMs
                 /\ rxb'.cb = "idle"
       /\ RxbOnRecvStamp =>
            /\ Len(Head(air).bytes) = 5
            /\ rxb'.g_lastPktMs = now
            /\ rxb'.g_lastPkt = rxb.g_lastPkt /\ rxb'.g_hasPkt]_vars

\* a packet (seq 1, left_on and charging) was accepted at 500 ms; 500 ms later
\* the payload of 6 bytes has arrived and is gone, and the cell is as it was
C32_Witness ==
    /\ obs.n = 1 /\ obs.bytes = PacketB(1, 9)
    /\ sent.n = 2 /\ sent.bytes = <<3, 0, 0, 0, 54, 0>>
    /\ air = <<>> /\ rxb.cb = "idle"
    /\ rxb.g_hasPkt /\ rxb.g_lastPkt = RxPacketFrom(PacketB(1, 9))
    /\ rxb.g_lastPktMs = U32(500) /\ now = U32(1000)

\* C33: loop() renders a frame only when at least g_frameMs have elapsed on
\* the 32-bit clock since the last frame, and otherwise it leaves the
\* debouncers, the strips and the time of the last frame alone; lastFrameMs is
\* the time of the last frame, so consecutive frames are at least g_frameMs
\* apart, also across the wrap of the clock.
C33_FramePeriod ==
    [][/\ RxbFrame =>
            IF U32GeC(U32Sub(now, rxb.lastFrameMs), rxb.timing.g_frameMs)
            THEN /\ obs'.frames = obs.frames + 1
                 /\ rxb'.lastFrameMs = now
            ELSE /\ obs'.frames = obs.frames
                 /\ rxb'.lastFrameMs = rxb.lastFrameMs
                 /\ rxb'.g_leftTurn = rxb.g_leftTurn
                 /\ rxb'.g_rightTurn = rxb.g_rightTurn
                 /\ rxb'.stripL = rxb.stripL
                 /\ rxb'.stripR = rxb.stripR
       /\ ~RxbFrame =>
            /\ obs'.frames = obs.frames
            /\ rxb'.lastFrameMs = rxb.lastFrameMs]_vars

\* Normal preset, 10 ms: the last frame before the wrap of the clock was 12 ms
\* before it; loop() ran at -8 and -4 ms without a frame, rendered at 0 ms,
\* ran at 4 and 8 ms without a frame and rendered again at 12 ms
C33_Witness ==
    /\ ticks = 5 /\ now = U32(12)
    /\ rxb.timing.g_frameMs = 10 /\ obs.asked = 0
    /\ obs.frames = 2 /\ rxb.lastFrameMs = U32(12)
    /\ rxb.pc = "web"

---------------------------------------------------------------------------
(* Format-B receiver, the responsiveness presets: claims *)

\* C34: after any sequence of preset changes (Chill, Normal, Snappy, or a
\* stored value that is no preset, which gets the Normal timings) the turn
\* pulse period is strictly shorter than the status pulse period.
C34_TurnFasterThanStatus ==
    /\ rxb.timing.g_turnPulseMs < rxb.timing.g_statusPulseMs
    /\ (rxb.pc \in {"web", "frame"} /\ rxb.timing.g_respPreset \notin {0, 1, 2}) =>
          /\ rxb.timing.g_turnPulseMs = RxbOff.timing.g_turnPulseMs
          /\ rxb.timing.g_statusPulseMs = RxbOff.timing.g_statusPulseMs
          /\ rxb.timing.g_frameMs = RxbOff.timing.g_frameMs
          /\ rxb.timing.g_turnLossHoldMs = RxbOff.timing.g_turnLossHoldMs

\* right after power-on and setup a client has selected two presets, the
\* second of them Snappy
C34_Witness ==
    /\ rxb.pc = "frame" /\ obs.asked = FrameRequests
    /\ rxb.timing.g_respPreset = 2
    /\ rxb.timing.g_turnPulseMs = 450 /\ rxb.timing.g_statusPulseMs = 800
    /\ now = U32Add(U32(0), AP_DELAY_MS + STARTUP_FADE_STEPS * STARTUP_FADE_DELAY_MS)

\* C35: with every preset the turn hold is strictly below half the turn pulse
\* period and strictly above the transmitter's heartbeat period (120 ms); and
\* a heartbeat that is lost clears no turn indicator: every frame rendered
\* while the latest accepted packet has a side's turn bit set has that side
\* active, however long ago the packet came.
C35_HoldBetween ==
    /\ [](/\ 2 * rxb.timing.g_turnLossHoldMs < rxb.timing.g_turnPulseMs
          /\ rxb.timing.g_turnLossHoldMs > TXB_HEARTBEAT_MS)
    /\ [][(RendersFrame /\ ~rxb.g_testMode /\ Accepted) =>
            /\ LatestBits.left_on = 1 => rxb'.g_leftTurn.active
            /\ LatestBits.right_on = 1 => rxb'.g_rightTurn.active]_vars

\* Snappy preset, hold 180 ms: a packet with left_on came 250 ms ago and
\* nothing since (two heartbeats lost); the frame rendered now has the left
\* side active
C35_Witness ==
    /\ rxb.timing.g_respPreset = 2 /\ rxb.timing.g_turnLossHoldMs = 180
    /\ obs.n = 1 /\ obs.bytes = PacketB(1, 1) /\ air = <<>>
    /\ now = U32Add(obs.at, 2 * HoldTickMs)
    /\ obs.frames > 0 /\ rxb.lastFrameMs = now
    /\ rxb.g_leftTurn.active /\ rxb.g_leftTurn.lastSeenMs = now
    /\ ~rxb.g_testMode

---------------------------------------------------------------------------
(* Format-A receiver, the callback beside loop(): claims *)

\* C36: a valid packet accepted by onRecv is never discarded by the link
\* supervision: whenever the timeout branch clears linkSeen and haveSeenData,
\* zeroes the statuses and enters Waiting-For-Link, more than LINK_TIMEOUT_MS
\* have passed since the last accepted packet (none was accepted since the
\* branch tested its condition).
C36_NoDiscard ==
    [][(rx.linkSeen /\ ~rx'.linkSeen) =>
          U32GtC(U32Sub(now, rx.lastPktMs), LINK_TIMEOUT_MS)]_vars

\* the link blink's own variables
BlinkState(r) == <<r.linkBlinkActive, r.linkBlinkStep, r.linkBlinkNext>>

---------------------------------------------------------------------------
(* Format-B transmitter, the bits it sends: claims *)

\* C38: every packet the format-B transmitter sends has the ap_on, charging,
\* plugged, track_on and reserved bits 0, and its left_on (right_on) bit is 1
\* iff the latest recognized frame has the left (right) status code ON (1):
\* OFF, FAULT and SNA are sent as 0; before any recognized frame every bit is 0.
C38_BitsSent ==
    [][Sends =>
         LET byte == sent'.bytes[5]
             d == bus'.read
         IN  /\ Len(sent'.bytes) = 5
             /\ byte \div 4 = 0
             /\ (byte % 2 = 1) <=> (d # <<>> /\ FieldValue(d, 50, 2) = 1)
             /\ ((byte \div 2) % 2 = 1) <=> (d # <<>> /\ FieldValue(d, 52, 2) = 1)]_vars

\* two frames were read, the latest recognized one has left FAULT and right
\* SNA (every other payload bit 1); the packet sent at this time has no bit set
C38_Witness ==
    /\ bus.n = 2 /\ bus.f = NoFrame
    /\ bus.read = LightingData(2, 3, 1)
    /\ sent.n >= 2 /\ sent.at = now
    /\ sent.bytes[5] = 0
    /\ txb.pc = "hb"
    /\ txb.g_pkt.bits = NoBits

---------------------------------------------------------------------------
(* Both receivers, sequence numbers: claims *)

\* C39: both receivers apply every valid packet whatever its sequence number:
\* a packet with a repeated or an older sequence value is applied like any
\* other, so after each delivery the receiver's state has the fields of the
\* packet delivered last.
C39_LastDeliveredWins ==
    [][/\ RxOnRecv =>
            /\ rx'.leftStatus = Head(air).bytes[3]
            /\ rx'.rightStatus = Head(air).bytes[4]
            /\ rx'.haveSeenData = (Head(air).bytes[5] % 2 = 1)
            /\ rx'.linkSeen /\ rx'.lastPktMs = now
       /\ RxbOnRecv =>
            /\ rxb'.g_hasPkt
            /\ rxb'.g_lastPkt.seq = U32(Head(air).bytes[1])
            /\ rxb'.g_lastPkt.bits = StateBitsOf(Head(air).bytes[5])]_vars

\* format B: two packets were accepted, and the second has the sequence number
\* 5, which is below or equal to that of the first (7 or 5); the receiver holds
\* seq 5 and right_on
C39_Witness ==
    /\ obs.n = 2 /\ sent.n = 2 /\ air = <<>>
    /\ obs.bytes = PacketB(5, 2)
    /\ rxb.g_lastPkt = [seq |-> U32(5), bits |-> StateBitsOf(2)]
    /\ rxb.g_lastPktMs = now

---------------------------------------------------------------------------
(* LED controller, startup: claims *)

\* the ambient state: no startup, no fade, full dimmer, every strip Solid
HandedOver ==
    /\ ~ctl.startupActive
    /\ ctl.fadePhase = 0
    /\ ctl.globalDimmer = 100
    /\ \A i \in 1 .. 5 : ctl.activeAnimation[i] = 0

\* C40: for every startupDurationSec >= 0 and startupFadeMs >= 0 the startup
\* eventually hands over to the ambient state (startupActive false, fadePhase
\* 0, globalDimmer 100, every strip Solid); fadePhase only advances
\* 0 -> 1 -> 2 -> 0 and globalDimmer stays within 0..100.
C40_StartupHandsOver ==
    /\ (ctl.pc = "loop") ~> HandedOver
    /\ [][ctl'.fadePhase # ctl.fadePhase =>
            <<ctl.fadePhase, ctl'.fadePhase>> \in { <<0, 1>>, <<1, 2>>, <<2, 0>> }]_vars
    /\ [](ctl.globalDimmer \in 0 .. 100)

=============================================================================
